---- MODULE Spec2Model ----
(***************************************************************************)
(* A model of kopf/reactor/registries.py: the registries of handlers, the  *)
(* selection of the handlers for a cause, and the matching rules.          *)
(*                                                                         *)
(* Python values are encoded as follows.                                   *)
(*   Optional[T]    None is <<>>, a value v is <<v>>  (None / Some(v))     *)
(*   a callable     [obj |-> n, qualname |-> s]; obj is what id(fn) gives  *)
(*                  and a callable is a plain function unless it has a     *)
(*                  type ("method", "partial", "type", "object"); it has   *)
(*                  func if it is a partial, wrapped if it has __wrapped__,*)
(*                  name and code if it is a lambda                        *)
(*   a field path   a sequence of keys (a tuple of strings)                *)
(*   a mapping      a function on the set of its keys                      *)
(*   a body         [metadata |-> Optional[[labels |-> Optional[mapping],  *)
(*                                          annotations |-> Optional[..]]]]*)
(*   a list         a sequence                                             *)
(*   an exception   ret.exc is Some(error) and ret.val is None             *)
(*   a registry     as the value of _default_registry: a reference         *)
(*                  <<class, n>>; instances gives the activity handlers of *)
(*                  the registry a reference is of                         *)
(***************************************************************************)
EXTENDS Integers, Sequences, FiniteSets, TLC

VARIABLES activity_handlers, resource_watching_handlers, resource_changing_handlers, ret,
          default_registry, instances, threads

vars == <<activity_handlers, resource_watching_handlers, resource_changing_handlers, ret,
          default_registry, instances, threads>>

\* ------------------------------------------------------------------------
\* Bounds of the model.

\* The longest list of handlers one registry holds.
MaxHandlers == 2

\* The longest list of handlers of the activity registry.
MaxActivityHandlers == 3

\* The most entries of a diff.
MaxDiffLen == 2

\* ------------------------------------------------------------------------
\* Python's None and the values of Optional[...].

None == <<>>

Some(v) == <<v>>

\* bool(x) of an Optional[bool]: None and False are falsy.
Truthy(opt) == opt # None /\ opt[1] = TRUE

\* The elements of a sequence.
Range(s) == {s[i] : i \in 1..Len(s)}

\* ------------------------------------------------------------------------
\* Identities: generate_id() and get_callable_id().

\* id(fn): the identity of the callable object, or of None.
id_of(fn) == IF fn = None THEN 0 ELSE fn.obj

\* type(c), and c.__name__ where it is told apart from __qualname__.
type_of(c) == IF "type" \in DOMAIN c THEN c.type ELSE "function"

name_of(c) == IF "name" \in DOMAIN c THEN c.name ELSE c.qualname

\* The ValueError which leaves get_callable_id(), None if it returns.
RECURSIVE get_callable_id_raises(_)
get_callable_id_raises(c) ==
    IF c = None THEN Some("ValueError")
    ELSE IF type_of(c) = "partial" THEN get_callable_id_raises(c.func)
    ELSE IF "wrapped" \in DOMAIN c THEN get_callable_id_raises(c.wrapped)
    ELSE IF type_of(c) = "function" /\ name_of(c) = "<lambda>" THEN None
    ELSE IF type_of(c) \in {"function", "method"} THEN None
    ELSE Some("ValueError")

\* What get_callable_id() returns when it returns: the id of a plain
\* function or a method is its qualified name.
RECURSIVE get_callable_id(_)
get_callable_id(c) ==
    IF type_of(c) = "partial" THEN get_callable_id(c.func)
    ELSE IF "wrapped" \in DOMAIN c THEN get_callable_id(c.wrapped)
    ELSE IF type_of(c) = "function" /\ name_of(c) = "<lambda>"
         THEN "lambda:" \o c.code.co_filename \o ":" \o ToString(c.code.co_firstlineno)
    ELSE c.qualname

\* The exception which leaves generate_id(), None if it returns: the
\* callable is looked at only when no id is given.
generate_id_raises(fn, id, prefix, suffix) ==
    IF id # None THEN None ELSE get_callable_id_raises(fn)

\* As generate_id(), but with the tests `is not None` of the suffix and of
\* the prefix, which let the empty ones through.
generate_id_unless_none(fn, id, prefix, suffix) ==
    LET id1 == IF id # None THEN id[1] ELSE get_callable_id(fn)
        id2 == IF suffix = None THEN id1 ELSE id1 \o "/" \o suffix[1]
        id3 == IF prefix = None THEN id2 ELSE prefix[1] \o "/" \o id2
    IN  id3

generate_id(fn, id, prefix, suffix) ==
    LET id1 == IF id # None THEN id[1] ELSE get_callable_id(fn)
        id2 == IF suffix = None \/ suffix = Some("") THEN id1 ELSE id1 \o "/" \o suffix[1]
        id3 == IF prefix = None \/ prefix = Some("") THEN id2 ELSE prefix[1] \o "/" \o id2
    IN  id3

\* ------------------------------------------------------------------------
\* _deduplicated(): the first handler of every callable, in the order given.

RECURSIVE deduplicated_loop(_, _, _)
deduplicated_loop(handlers, seen_ids, out) ==
    IF handlers = <<>> THEN out
    ELSE LET handler == Head(handlers) IN
         IF id_of(handler.fn) \in seen_ids
         THEN deduplicated_loop(Tail(handlers), seen_ids, out)
         ELSE deduplicated_loop(Tail(handlers), seen_ids \cup {id_of(handler.fn)},
                                Append(out, handler))

\* As _deduplicated(), but telling the handlers apart by their ids.
_deduplicated_by_handler_id(handlers) ==
    LET firsts == {i \in 1..Len(handlers) :
                      \A j \in 1..(i - 1) : handlers[j].id # handlers[i].id}
        keep[i \in 0..Len(handlers)] ==
            IF i = 0 THEN <<>>
            ELSE IF i \in firsts THEN Append(keep[i - 1], handlers[i]) ELSE keep[i - 1]
    IN  keep[Len(handlers)]

_deduplicated(handlers) == deduplicated_loop(handlers, {}, <<>>)

\* ------------------------------------------------------------------------
\* ActivityRegistry.

\* The exception which leaves ActivityRegistry.register(), None if it returns.
ActivityRegistry_register_raises(fn, id) == generate_id_raises(fn, id, None, None)

\* The handler which ActivityRegistry.register() appends.
ActivityHandler(fn, id, activity, fallback) ==
    [id |-> generate_id(fn, id, None, None), fn |-> fn,
     activity |-> activity, fallback |-> fallback]

\* "a or b and c" is "a or (b and c)": the test of the first loop.
ActivityRegular(handler, activity) ==
    \/ handler.activity = None
    \/ handler.activity = Some(activity) /\ ~handler.fallback

\* The test of the second loop.
ActivityFallback(handler, activity) ==
    \/ handler.activity = None
    \/ handler.activity = Some(activity) /\ handler.fallback

ActivityRegistry_iter_handlers(handlers, activity) ==
    LET regular == SelectSeq(handlers, LAMBDA h : ActivityRegular(h, activity))
        found == regular # <<>>
    IN  IF found THEN regular
        ELSE regular \o SelectSeq(handlers, LAMBDA h : ActivityFallback(h, activity))

ActivityRegistry_get_handlers(handlers, activity) ==
    _deduplicated(ActivityRegistry_iter_handlers(handlers, activity))

\* ------------------------------------------------------------------------
\* The matching rules: match() and its four helpers.

\* seq[:n] of Python: the first n elements, or all of them if there are fewer.
Slice(seq, n) == SubSeq(seq, 1, IF n < Len(seq) THEN n ELSE Len(seq))

\* mapping.get(key, {}) where the mapping is an Optional record of Optionals.
MetadataOf(body) == body.metadata

LabelsOf(body) ==
    IF MetadataOf(body) = None \/ MetadataOf(body)[1].labels = None
    THEN <<>> ELSE MetadataOf(body)[1].labels[1]

AnnotationsOf(body) ==
    IF MetadataOf(body) = None \/ MetadataOf(body)[1].annotations = None
    THEN <<>> ELSE MetadataOf(body)[1].annotations[1]

\* As _matches_field(), but a changed field above the handler's field
\* matches as well as one below it.
_matches_field_above_or_below(handler, changed_fields, ignore_fields) ==
    \/ ignore_fields
    \/ handler.field = None
    \/ handler.field[1] = <<>>
    \/ \E field \in changed_fields :
          \/ Slice(field, Len(handler.field[1])) = handler.field[1]
          \/ Slice(handler.field[1], Len(field)) = field

_matches_field(handler, changed_fields, ignore_fields) ==
    \/ ignore_fields
    \/ handler.field = None
    \/ handler.field[1] = <<>>
    \/ \E field \in changed_fields :
          Slice(field, Len(handler.field[1])) = handler.field[1]

\* As _matches_metadata(), but a value of None in the pattern is compared
\* with the value of the body like any other.
_matches_metadata_by_value(pattern, content) ==
    \A key \in DOMAIN pattern :
        /\ key \in DOMAIN content
        /\ pattern[key] = Some(content[key])

_matches_metadata(pattern, content) ==
    \A key \in DOMAIN pattern :
        /\ key \in DOMAIN content
        /\ ~(pattern[key] # None /\ pattern[key][1] # content[key])

_matches_labels(handler, body) ==
    \/ handler.labels = None
    \/ DOMAIN handler.labels[1] = {}
    \/ _matches_metadata(handler.labels[1], LabelsOf(body))

_matches_annotations(handler, body) ==
    \/ handler.annotations = None
    \/ DOMAIN handler.annotations[1] = {}
    \/ _matches_metadata(handler.annotations[1], AnnotationsOf(body))

\* What the callbacks given as when= raise for a cause: "raises" raises
\* whatever it is called with, "labelled" looks up body["metadata"] and
\* raises KeyError on a body without it; the others never raise.
when_raises(when, cause) ==
    CASE when = "raises" -> Some("ValueError")
      [] when = "labelled" -> IF cause.body.metadata = None THEN Some("KeyError") ELSE None
      [] OTHER -> None

\* What the callbacks given as when= return for a cause. A call which raises
\* returns nothing: the callers ask when_raises() first, FALSE stands for it.
invoke_when(when, cause) ==
    CASE when = "always" -> TRUE
      [] when = "never" -> FALSE
      [] when = "has_metadata" -> cause.body.metadata # None
      [] when = "labelled" -> cause.body.metadata # None /\ cause.body.metadata[1].labels # None
      [] when = "raises" -> FALSE

\* As _matches_filter_callback_raises(), but with the exception of the
\* predicate caught inside.
_matches_filter_callback_catches(handler, cause) == None

\* The exception which leaves _matches_filter_callback(), None if it returns.
_matches_filter_callback_raises(handler, cause) ==
    IF handler.when = None THEN None ELSE when_raises(handler.when[1], cause)

_matches_filter_callback(handler, cause) ==
    IF handler.when = None THEN TRUE ELSE invoke_when(handler.when[1], cause)

\* The exception which leaves match(), None if it returns: all() is given a
\* list, so the four rules are all computed, whatever the first three say.
match_raises(handler, cause) == _matches_filter_callback_raises(handler, cause)

\* all([...]) of the four rules; "changed_fields or {}" is changed_fields,
\* the empty set being the empty set.
match(handler, cause, changed_fields, ignore_fields) ==
    /\ _matches_field(handler, changed_fields, ignore_fields)
    /\ _matches_labels(handler, cause.body)
    /\ _matches_annotations(handler, cause.body)
    /\ _matches_filter_callback(handler, cause)

\* ------------------------------------------------------------------------
\* ResourceRegistry and its two subclasses.

\* dicts.parse_field(): no field is the empty path, a field is its path.
parse_field(field) == IF field = None THEN <<>> ELSE field[1]

\* sep.join(path)
RECURSIVE join(_, _)
join(sep, path) ==
    IF path = <<>> THEN ""
    ELSE IF Len(path) = 1 THEN path[1]
    ELSE path[1] \o sep \o join(sep, Tail(path))

\* The exception which leaves ResourceRegistry.register(), None if it returns.
ResourceRegistry_register_raises(p) == generate_id_raises(p.fn, p.id, None, None)

\* The handler which ResourceRegistry.register() appends; p holds the arguments.
ResourceHandler(p) ==
    LET reason == IF p.reason = None /\ p.event # None THEN p.event ELSE p.reason
        real_field == IF parse_field(p.field) = <<>> THEN None ELSE Some(parse_field(p.field))
        real_id == generate_id(p.fn, p.id, None,
                               Some(join(".", IF real_field = None THEN <<>> ELSE real_field[1])))
    IN  [id |-> real_id, fn |-> p.fn, reason |-> reason, field |-> real_field,
         initial |-> p.initial, deleted |-> p.deleted,
         requires_finalizer |-> p.requires_finalizer,
         labels |-> p.labels, annotations |-> p.annotations, when |-> p.when]

ResourceRegistry_get_extra_fields(handlers) ==
    {handler.field[1] : handler \in {h \in Range(handlers) : h.field # None /\ h.field[1] # <<>>}}

ResourceRegistry_requires_finalizer(handlers, cause) ==
    \E i \in 1..Len(handlers) :
        handlers[i].requires_finalizer /\ match(handlers[i], cause, {}, FALSE)

\* The exception of the first handler, of those at the indices called, for
\* which the loop calls match(), whose match() raises; None if none raises.
first_raised(handlers, cause, called) ==
    LET raising == {i \in called : match_raises(handlers[i], cause) # None}
    IN  IF raising = {} THEN None
        ELSE match_raises(handlers[CHOOSE i \in raising : \A j \in raising : i <= j], cause)

\* The exception which leaves requires_finalizer(), None if it returns: the
\* loop returns at the first handler which matches, and calls match() for the
\* handlers with requires_finalizer up to that one.
ResourceRegistry_requires_finalizer_raises(handlers, cause) ==
    first_raised(handlers, cause,
        {i \in 1..Len(handlers) :
            /\ handlers[i].requires_finalizer
            /\ \A j \in 1..(i-1) :
                  ~(/\ handlers[j].requires_finalizer
                    /\ match_raises(handlers[j], cause) = None
                    /\ match(handlers[j], cause, {}, FALSE))})

\* The exception which leaves the loop of iter_handlers(), None if it ends.
ResourceWatchingRegistry_iter_handlers_raises(handlers, cause) ==
    first_raised(handlers, cause, 1..Len(handlers))

\* As iter_handlers(), but without ignore_fields=True.
iter_handlers_with_fields(handlers, cause) ==
    SelectSeq(handlers, LAMBDA handler : match(handler, cause, {}, FALSE))

ResourceWatchingRegistry_iter_handlers(handlers, cause) ==
    SelectSeq(handlers, LAMBDA handler : match(handler, cause, {}, TRUE))

ResourceWatchingRegistry_get_handlers(handlers, cause) ==
    _deduplicated(ResourceWatchingRegistry_iter_handlers(handlers, cause))

\* frozenset(field for _, field, _, _ in cause.diff or [])
ChangedFields(cause) ==
    IF cause.diff = None THEN {} ELSE {item[2] : item \in Range(cause.diff[1])}

\* As ChangingYields(), but without the test of the reason.
ChangingYields_any_reason(handler, cause) ==
    /\ ~(Truthy(handler.initial) /\ ~cause.initial)
    /\ ~(Truthy(handler.initial) /\ cause.deleted /\ ~Truthy(handler.deleted))
    /\ match(handler, cause, ChangedFields(cause), FALSE)

\* As ChangingYields(), but without the test of the deletion.
ChangingYields_on_deletion(handler, cause) ==
    /\ handler.reason = None \/ handler.reason = Some(cause.reason)
    /\ ~(Truthy(handler.initial) /\ ~cause.initial)
    /\ match(handler, cause, ChangedFields(cause), FALSE)

\* The handlers which ResourceChangingRegistry.iter_handlers() calls match()
\* for: those of the reason which the two tests of initial do not pass over.
ChangingCallsMatch(handler, cause) ==
    /\ handler.reason = None \/ handler.reason = Some(cause.reason)
    /\ ~(Truthy(handler.initial) /\ ~cause.initial)
    /\ ~(Truthy(handler.initial) /\ cause.deleted /\ ~Truthy(handler.deleted))

\* The exception which leaves the loop of iter_handlers(), None if it ends.
ResourceChangingRegistry_iter_handlers_raises(handlers, cause) ==
    first_raised(handlers, cause,
                 {i \in 1..Len(handlers) : ChangingCallsMatch(handlers[i], cause)})

\* The test which ResourceChangingRegistry.iter_handlers() applies to one handler.
ChangingYields(handler, cause) ==
    /\ handler.reason = None \/ handler.reason = Some(cause.reason)
    /\ ~(Truthy(handler.initial) /\ ~cause.initial)
    /\ ~(Truthy(handler.initial) /\ cause.deleted /\ ~Truthy(handler.deleted))
    /\ match(handler, cause, ChangedFields(cause), FALSE)

\* As iter_handlers(), but the handlers of the cause's reason go first and
\* the handlers of any reason follow them.
iter_handlers_grouped_by_reason(handlers, cause) ==
    SelectSeq(handlers, LAMBDA handler : handler.reason # None /\ ChangingYields(handler, cause))
    \o SelectSeq(handlers, LAMBDA handler : handler.reason = None /\ ChangingYields(handler, cause))

ResourceChangingRegistry_iter_handlers(handlers, cause) ==
    SelectSeq(handlers, LAMBDA handler : ChangingYields(handler, cause))

ResourceChangingRegistry_get_handlers(handlers, cause) ==
    _deduplicated(ResourceChangingRegistry_iter_handlers(handlers, cause))

\* ------------------------------------------------------------------------
\* OperatorRegistry: one activity registry and two maps of registries by
\* resource. A map is a function on the resources it has an entry for.

\* defaultdict.__getitem__: a missing key gets an empty registry.
defaultdict_getitem(map, resource) ==
    IF resource \in DOMAIN map THEN map ELSE map @@ (resource :> <<>>)

\* As guarded_getitem(), but without the test: the key is looked up at once.
unguarded_getitem(map, resource) == defaultdict_getitem(map, resource)

\* The map after `resource in map and map[resource]`, the form of every
\* lookup of the calls which read: __getitem__ is reached for a key of the
\* map only.
guarded_getitem(map, resource) ==
    IF resource \in DOMAIN map THEN defaultdict_getitem(map, resource) ELSE map

\* As registry_append(), but the handler is put before the others.
registry_prepend(map, resource, handler) ==
    [defaultdict_getitem(map, resource) EXCEPT ![resource] = <<handler>> \o @]

\* map[resource].append(handler)
registry_append(map, resource, handler) ==
    [defaultdict_getitem(map, resource) EXCEPT ![resource] = Append(@, handler)]

\* map[resource].register(**p): the registry is looked up, and made if the
\* map has none, before register() is called and appends or raises.
registry_register(map, resource, p) ==
    IF ResourceRegistry_register_raises(p) = None
    THEN registry_append(map, resource, ResourceHandler(p))
    ELSE defaultdict_getitem(map, resource)

OperatorRegistry_resources(watching, changing) == DOMAIN watching \cup DOMAIN changing

OperatorRegistry_has_activity_handlers(handlers) == handlers # <<>>

OperatorRegistry_has_resource_watching_handlers(watching, resource) ==
    resource \in DOMAIN watching /\ watching[resource] # <<>>

\* As has_resource_changing_handlers(), but true of every resource once
\* some resource has a registry.
has_any_resource_changing_handlers(changing, resource) ==
    DOMAIN changing # {}

OperatorRegistry_has_resource_changing_handlers(changing, resource) ==
    resource \in DOMAIN changing /\ changing[resource] # <<>>

OperatorRegistry_iter_activity_handlers(handlers, activity) ==
    ActivityRegistry_iter_handlers(handlers, activity)

OperatorRegistry_iter_resource_watching_handlers(watching, cause) ==
    IF cause.resource \in DOMAIN watching
    THEN ResourceWatchingRegistry_iter_handlers(watching[cause.resource], cause)
    ELSE <<>>

OperatorRegistry_iter_resource_changing_handlers(changing, cause) ==
    IF cause.resource \in DOMAIN changing
    THEN ResourceChangingRegistry_iter_handlers(changing[cause.resource], cause)
    ELSE <<>>

OperatorRegistry_get_activity_handlers(handlers, activity) ==
    _deduplicated(OperatorRegistry_iter_activity_handlers(handlers, activity))

OperatorRegistry_get_resource_watching_handlers(watching, cause) ==
    _deduplicated(OperatorRegistry_iter_resource_watching_handlers(watching, cause))

OperatorRegistry_get_resource_changing_handlers(changing, cause) ==
    _deduplicated(OperatorRegistry_iter_resource_changing_handlers(changing, cause))

\* As get_extra_fields(), but of the registries of all the resources.
get_extra_fields_of_all_resources(changing, resource) ==
    UNION {ResourceRegistry_get_extra_fields(changing[r]) : r \in DOMAIN changing}

OperatorRegistry_get_extra_fields(changing, resource) ==
    IF resource \in DOMAIN changing
    THEN ResourceRegistry_get_extra_fields(changing[resource])
    ELSE {}

OperatorRegistry_requires_finalizer(changing, resource, cause) ==
    /\ resource \in DOMAIN changing
    /\ ResourceRegistry_requires_finalizer(changing[resource], cause)

\* ------------------------------------------------------------------------
\* The values the operations are called with.

Resources == {<<"apps", "v1", "deployments">>, <<"", "v1", "pods">>}

Deployments == <<"apps", "v1", "deployments">>

Fn1 == [obj |-> 1, qualname |-> "fn1"]

Fn2 == [obj |-> 2, qualname |-> "fn2"]

Callbacks == {Fn1, Fn2}

\* id=: none, or one explicit id.
Ids == {None, Some("x")}

Activities == {"authentication", "startup"}

\* The arguments of ResourceRegistry.register() when only fn is given.
DefaultArgs ==
    [fn |-> Fn1, id |-> None, reason |-> None, event |-> None, field |-> None,
     initial |-> None, deleted |-> None, requires_finalizer |-> FALSE,
     labels |-> None, annotations |-> None, when |-> None]

BodyNoMetadata == [metadata |-> None]

BodyOf(labels, annotations) ==
    [metadata |-> Some([labels |-> labels, annotations |-> annotations])]

\* A changing cause of the first resource with nothing special about it.
DefaultCause ==
    [resource |-> Deployments, body |-> BodyNoMetadata, reason |-> "update",
     diff |-> None, initial |-> FALSE, deleted |-> FALSE]

\* ------------------------------------------------------------------------
\* The state after OperatorRegistry.__init__(), or SmartOperatorRegistry's
\* with neither, one or both of the optional clients installed.

LoginViaPykube == [obj |-> 11, qualname |-> "login_via_pykube"]

LoginViaClient == [obj |-> 12, qualname |-> "login_via_client"]

SmartHandlers(with_pykube, with_client) ==
    (IF with_pykube
     THEN <<ActivityHandler(LoginViaPykube, Some("login_via_pykube"), Some("authentication"), TRUE)>>
     ELSE <<>>)
    \o
    (IF with_client
     THEN <<ActivityHandler(LoginViaClient, Some("login_via_client"), Some("authentication"), TRUE)>>
     ELSE <<>>)

NoCall == [exc |-> None, op |-> "init", arg |-> None, val |-> None]

\* The module's global _default_registry is None, there is no registry to
\* be the default one, and no thread is inside a call.
NoDefaultRegistry ==
    /\ default_registry = None
    /\ instances = <<>>
    /\ threads = <<>>

Init ==
    /\ activity_handlers = <<>>
    /\ resource_watching_handlers = <<>>
    /\ resource_changing_handlers = <<>>
    /\ ret = NoCall
    /\ NoDefaultRegistry

InitSmart ==
    /\ \E with_pykube \in BOOLEAN, with_client \in BOOLEAN :
          activity_handlers = SmartHandlers(with_pykube, with_client)
    /\ resource_watching_handlers = <<>>
    /\ resource_changing_handlers = <<>>
    /\ ret = NoCall
    /\ NoDefaultRegistry

\* ------------------------------------------------------------------------
\* The number of handlers registered so far.

RECURSIVE SumLen(_, _)
SumLen(map, keys) ==
    IF keys = {} THEN 0
    ELSE LET key == CHOOSE k \in keys : TRUE
         IN  Len(map[key]) + SumLen(map, keys \ {key})

NumHandlers ==
    Len(activity_handlers)
    + SumLen(resource_watching_handlers, DOMAIN resource_watching_handlers)
    + SumLen(resource_changing_handlers, DOMAIN resource_changing_handlers)

\* ------------------------------------------------------------------------
\* The operations. Every call leaves what it returns in ret.

\* The default registry of the module, the registries which can be it, and
\* the calls in progress in threads, which the calls on a registry leave alone.
others == <<default_registry, instances, threads>>

\* What a call leaves in ret: the exception which left it, or its value.
Outcome(op, arg, exc, val) ==
    [exc |-> exc, op |-> op, arg |-> arg, val |-> IF exc = None THEN val ELSE None]

register_activity_handler(fn, id, activity, fallback) ==
    /\ Len(activity_handlers) < MaxActivityHandlers
    /\ activity_handlers' =
          IF ActivityRegistry_register_raises(fn, id) = None
          THEN Append(activity_handlers, ActivityHandler(fn, id, activity, fallback))
          ELSE activity_handlers
    /\ ret' = Outcome("register_activity_handler", None,
                      ActivityRegistry_register_raises(fn, id), fn)
    /\ UNCHANGED <<resource_watching_handlers, resource_changing_handlers, others>>

register_resource_watching_handler(resource, fn, id, labels, annotations, when) ==
    /\ NumHandlers < MaxHandlers
    /\ resource_watching_handlers' =
          registry_register(resource_watching_handlers, resource,
                            [DefaultArgs EXCEPT !.fn = fn, !.id = id,
                                !.labels = labels, !.annotations = annotations, !.when = when])
    /\ ret' = Outcome("register_resource_watching_handler", None,
                      ResourceRegistry_register_raises([DefaultArgs EXCEPT !.fn = fn, !.id = id]), fn)
    /\ UNCHANGED <<activity_handlers, resource_changing_handlers, others>>

register_resource_changing_handler(resource, p) ==
    /\ NumHandlers < MaxHandlers
    /\ resource_changing_handlers' =
          registry_register(resource_changing_handlers, resource, p)
    /\ ret' = Outcome("register_resource_changing_handler", None,
                      ResourceRegistry_register_raises(p), p.fn)
    /\ UNCHANGED <<activity_handlers, resource_watching_handlers, others>>

\* The registries, which a call that only reads them leaves unchanged.
registries == <<activity_handlers, resource_watching_handlers, resource_changing_handlers>>

resources ==
    /\ ret' = [exc |-> None, op |-> "resources", arg |-> None,
               val |-> OperatorRegistry_resources(resource_watching_handlers,
                                                  resource_changing_handlers)]
    /\ UNCHANGED <<registries, others>>

has_activity_handlers ==
    /\ ret' = [exc |-> None, op |-> "has_activity_handlers", arg |-> None,
               val |-> OperatorRegistry_has_activity_handlers(activity_handlers)]
    /\ UNCHANGED <<registries, others>>

has_resource_watching_handlers(resource) ==
    /\ ret' = [exc |-> None, op |-> "has_resource_watching_handlers", arg |-> resource,
               val |-> OperatorRegistry_has_resource_watching_handlers(resource_watching_handlers, resource)]
    /\ resource_watching_handlers' = guarded_getitem(resource_watching_handlers, resource)
    /\ UNCHANGED <<activity_handlers, resource_changing_handlers, others>>

has_resource_changing_handlers(resource) ==
    /\ ret' = [exc |-> None, op |-> "has_resource_changing_handlers", arg |-> resource,
               val |-> OperatorRegistry_has_resource_changing_handlers(resource_changing_handlers, resource)]
    /\ resource_changing_handlers' = guarded_getitem(resource_changing_handlers, resource)
    /\ UNCHANGED <<activity_handlers, resource_watching_handlers, others>>

get_activity_handlers(activity) ==
    /\ ret' = [exc |-> None, op |-> "get_activity_handlers", arg |-> activity,
               val |-> OperatorRegistry_get_activity_handlers(activity_handlers, activity)]
    /\ UNCHANGED <<registries, others>>

get_resource_watching_handlers(cause) ==
    /\ ret' = Outcome("get_resource_watching_handlers", cause,
                      IF cause.resource \in DOMAIN resource_watching_handlers
                      THEN ResourceWatchingRegistry_iter_handlers_raises(resource_watching_handlers[cause.resource], cause)
                      ELSE None,
                      OperatorRegistry_get_resource_watching_handlers(resource_watching_handlers, cause))
    /\ resource_watching_handlers' = guarded_getitem(resource_watching_handlers, cause.resource)
    /\ UNCHANGED <<activity_handlers, resource_changing_handlers, others>>

get_resource_changing_handlers(cause) ==
    /\ ret' = Outcome("get_resource_changing_handlers", cause,
                      IF cause.resource \in DOMAIN resource_changing_handlers
                      THEN ResourceChangingRegistry_iter_handlers_raises(resource_changing_handlers[cause.resource], cause)
                      ELSE None,
                      OperatorRegistry_get_resource_changing_handlers(resource_changing_handlers, cause))
    /\ resource_changing_handlers' = guarded_getitem(resource_changing_handlers, cause.resource)
    /\ UNCHANGED <<activity_handlers, resource_watching_handlers, others>>

get_extra_fields(resource) ==
    /\ ret' = [exc |-> None, op |-> "get_extra_fields", arg |-> resource,
               val |-> OperatorRegistry_get_extra_fields(resource_changing_handlers, resource)]
    /\ resource_changing_handlers' = guarded_getitem(resource_changing_handlers, resource)
    /\ UNCHANGED <<activity_handlers, resource_watching_handlers, others>>

requires_finalizer(resource, cause) ==
    /\ ret' = Outcome("requires_finalizer", <<resource, cause>>,
                      IF resource \in DOMAIN resource_changing_handlers
                      THEN ResourceRegistry_requires_finalizer_raises(resource_changing_handlers[resource], cause)
                      ELSE None,
                      OperatorRegistry_requires_finalizer(resource_changing_handlers, resource, cause))
    /\ resource_changing_handlers' = guarded_getitem(resource_changing_handlers, resource)
    /\ UNCHANGED <<activity_handlers, resource_watching_handlers, others>>

\* generate_id() called by itself.
generate_id_call(fn, id, prefix, suffix) ==
    /\ ret' = Outcome("generate_id", <<fn, id, prefix, suffix>>,
                      generate_id_raises(fn, id, prefix, suffix),
                      generate_id(fn, id, prefix, suffix))
    /\ UNCHANGED <<registries, others>>

\* register() called on the changing registry of a resource which has one;
\* ret keeps the arguments.
ResourceChangingRegistry_register(resource, p) ==
    /\ NumHandlers < MaxHandlers
    /\ resource \in DOMAIN resource_changing_handlers
    /\ resource_changing_handlers' =
          registry_register(resource_changing_handlers, resource, p)
    /\ ret' = Outcome("ResourceChangingRegistry.register", <<resource, p>>,
                      ResourceRegistry_register_raises(p), p.fn)
    /\ UNCHANGED <<activity_handlers, resource_watching_handlers, others>>

\* register() called on the watching registry of a resource, which the map
\* makes if it has none; ret keeps the arguments.
ResourceWatchingRegistry_register(resource, p) ==
    /\ NumHandlers < MaxHandlers
    /\ resource_watching_handlers' =
          registry_register(resource_watching_handlers, resource, p)
    /\ ret' = Outcome("ResourceWatchingRegistry.register", <<resource, p>>,
                      ResourceRegistry_register_raises(p), p.fn)
    /\ UNCHANGED <<activity_handlers, resource_changing_handlers, others>>

\* get_extra_fields() called on the registry of a resource which has one.
ResourceWatchingRegistry_get_extra_fields(resource) ==
    /\ resource \in DOMAIN resource_watching_handlers
    /\ ret' = [exc |-> None, op |-> "ResourceWatchingRegistry.get_extra_fields", arg |-> resource,
               val |-> ResourceRegistry_get_extra_fields(resource_watching_handlers[resource])]
    /\ UNCHANGED <<registries, others>>

ResourceChangingRegistry_get_extra_fields(resource) ==
    /\ resource \in DOMAIN resource_changing_handlers
    /\ ret' = [exc |-> None, op |-> "ResourceChangingRegistry.get_extra_fields", arg |-> resource,
               val |-> ResourceRegistry_get_extra_fields(resource_changing_handlers[resource])]
    /\ UNCHANGED <<registries, others>>

\* The same calls made on one registry of the operator's: the activity
\* registry, or the registry of a resource which has one.

ActivityRegistry_get(activity) ==
    /\ ret' = [exc |-> None, op |-> "ActivityRegistry.get_handlers", arg |-> activity,
               val |-> ActivityRegistry_get_handlers(activity_handlers, activity)]
    /\ UNCHANGED <<registries, others>>

ResourceWatchingRegistry_get(resource, cause) ==
    /\ resource \in DOMAIN resource_watching_handlers
    /\ ret' = Outcome("ResourceWatchingRegistry.get_handlers", <<resource, cause>>,
                      ResourceWatchingRegistry_iter_handlers_raises(resource_watching_handlers[resource], cause),
                      ResourceWatchingRegistry_get_handlers(resource_watching_handlers[resource], cause))
    /\ UNCHANGED <<registries, others>>

ResourceWatchingRegistry_iter(resource, cause) ==
    /\ resource \in DOMAIN resource_watching_handlers
    /\ ret' = Outcome("ResourceWatchingRegistry.iter_handlers", <<resource, cause>>,
                      ResourceWatchingRegistry_iter_handlers_raises(resource_watching_handlers[resource], cause),
                      ResourceWatchingRegistry_iter_handlers(resource_watching_handlers[resource], cause))
    /\ UNCHANGED <<registries, others>>

ResourceChangingRegistry_get(resource, cause) ==
    /\ resource \in DOMAIN resource_changing_handlers
    /\ ret' = Outcome("ResourceChangingRegistry.get_handlers", <<resource, cause>>,
                      ResourceChangingRegistry_iter_handlers_raises(resource_changing_handlers[resource], cause),
                      ResourceChangingRegistry_get_handlers(resource_changing_handlers[resource], cause))
    /\ UNCHANGED <<registries, others>>

ResourceChangingRegistry_iter(resource, cause) ==
    /\ resource \in DOMAIN resource_changing_handlers
    /\ ret' = Outcome("ResourceChangingRegistry.iter_handlers", <<resource, cause>>,
                      ResourceChangingRegistry_iter_handlers_raises(resource_changing_handlers[resource], cause),
                      ResourceChangingRegistry_iter_handlers(resource_changing_handlers[resource], cause))
    /\ UNCHANGED <<registries, others>>

ResourceChangingRegistry_requires(resource, cause) ==
    /\ resource \in DOMAIN resource_changing_handlers
    /\ ret' = Outcome("ResourceChangingRegistry.requires_finalizer", <<resource, cause>>,
                      ResourceRegistry_requires_finalizer_raises(resource_changing_handlers[resource], cause),
                      ResourceRegistry_requires_finalizer(resource_changing_handlers[resource], cause))
    /\ UNCHANGED <<registries, others>>

\* ------------------------------------------------------------------------
\* Spec: an OperatorRegistry with handlers of all three kinds.

Prod == ("env" :> Some("prod"))

ActivityArgs == {None, Some("authentication")}

WatchingLabels == {None, Some(Prod)}

ChangingArgs ==
    {[DefaultArgs EXCEPT !.fn = fn, !.id = id, !.reason = reason] :
        fn \in Callbacks, id \in Ids, reason \in {None, Some("create")}}

WatchingCauses ==
    {[resource |-> resource, body |-> body] :
        resource \in Resources,
        body \in {BodyNoMetadata, BodyOf(Some("env" :> "prod"), None)}}

ChangingCauses ==
    {[DefaultCause EXCEPT !.resource = resource, !.reason = reason] :
        resource \in Resources, reason \in {"create", "update"}}

Next ==
    \/ \E fn \in Callbacks, activity \in ActivityArgs, fallback \in BOOLEAN :
          NumHandlers < MaxHandlers /\ register_activity_handler(fn, None, activity, fallback)
    \/ \E resource \in Resources, fn \in Callbacks, labels \in WatchingLabels :
          register_resource_watching_handler(resource, fn, None, labels, None, None)
    \/ \E resource \in Resources, p \in ChangingArgs :
          register_resource_changing_handler(resource, p)
    \/ has_activity_handlers
    \/ \E resource \in Resources : has_resource_watching_handlers(resource)
    \/ \E resource \in Resources : has_resource_changing_handlers(resource)
    \/ \E activity \in Activities : get_activity_handlers(activity)
    \/ \E cause \in WatchingCauses : get_resource_watching_handlers(cause)
    \/ \E cause \in ChangingCauses : get_resource_changing_handlers(cause)
    \/ \E resource \in Resources : get_extra_fields(resource)
    \/ \E resource \in Resources :
          requires_finalizer(resource, [DefaultCause EXCEPT !.resource = resource])
    \/ \E activity \in Activities : ActivityRegistry_get(activity)
    \/ \E cause \in WatchingCauses : ResourceWatchingRegistry_get(cause.resource, cause)
    \/ \E cause \in ChangingCauses : ResourceChangingRegistry_get(cause.resource, cause)

Spec == Init /\ [][Next]_vars

\* ------------------------------------------------------------------------
\* SpecActivity: the activity registry of a SmartOperatorRegistry.

NextActivity ==
    \/ \E fn \in Callbacks, activity \in {None} \cup {Some(a) : a \in Activities},
          fallback \in BOOLEAN :
          register_activity_handler(fn, None, activity, fallback)
    \/ \E activity \in Activities : get_activity_handlers(activity)
    \/ \E activity \in Activities : ActivityRegistry_get(activity)

SpecActivity == InitSmart /\ [][NextActivity]_vars

\* ------------------------------------------------------------------------
\* SpecField: the handlers of one resource with and without a field, and
\* causes with all kinds of diffs.

\* The field paths a diff speaks of: the fields of the handlers, and
\* fields above, below, beside and away from them.
DiffPaths ==
    {<<"spec">>, <<"spec", "replicas">>, <<"spec", "replicas", "max">>,
     <<"spec", "template">>, <<"status", "phase">>}

\* The elements of a set in a sequence, in some order.
RECURSIVE SetToSeq(_)
SetToSeq(set) ==
    IF set = {} THEN <<>>
    ELSE LET x == CHOOSE y \in set : TRUE
         IN  <<x>> \o SetToSeq(set \ {x})

\* The entry of a diff for a changed field: (op, field, old, new).
DiffItem(field) == <<"change", field, 1, 3>>

\* No diff, the empty diff, and the diffs of up to MaxDiffLen fields.
Diffs ==
    {None} \cup
    {Some(SetToSeq({DiffItem(field) : field \in fields})) :
        fields \in {set \in SUBSET DiffPaths : Cardinality(set) <= MaxDiffLen}}

BodyProd == BodyOf(Some("env" :> "prod"), None)

FieldCauses == {[DefaultCause EXCEPT !.diff = diff] : diff \in Diffs}

NextField ==
    LET FieldArgs ==
            {[DefaultArgs EXCEPT !.field = field, !.reason = reason] :
                field \in {None, Some(<<>>), Some(<<"spec">>), Some(<<"spec", "replicas">>)},
                reason \in {None, Some("create")}}
    IN  \/ \E p \in FieldArgs : register_resource_changing_handler(Deployments, p)
        \/ \E cause \in FieldCauses : ResourceChangingRegistry_iter(Deployments, cause)
        \/ \E cause \in FieldCauses : ResourceChangingRegistry_get(Deployments, cause)

SpecField == Init /\ [][NextField]_vars

\* ------------------------------------------------------------------------
\* SpecMeta: handlers with selectors of labels and of annotations, and
\* bodies with and without metadata, labels and annotations.

Selectors ==
    {None, Some(<<>>), Some(Prod), Some("env" :> None),
     Some(("env" :> Some("prod")) @@ ("tier" :> None))}

\* The labels or the annotations of a body: absent, or a mapping.
Contents ==
    {None, Some(<<>>), Some("env" :> "prod"), Some("env" :> "staging"),
     Some(("env" :> "prod") @@ ("tier" :> "web"))}

MetaCauses ==
    {[DefaultCause EXCEPT !.body = body] :
        body \in {BodyNoMetadata, BodyOf(Some("env" :> "prod"), Some("env" :> "prod"))}
                 \cup {BodyOf(labels, None) : labels \in Contents}
                 \cup {BodyOf(None, annotations) : annotations \in Contents}}

NextMeta ==
    LET MetaArgs ==
            {[DefaultArgs EXCEPT !.labels = labels] : labels \in Selectors}
            \cup {[DefaultArgs EXCEPT !.annotations = annotations] : annotations \in Selectors}
    IN  \/ \E p \in MetaArgs : register_resource_changing_handler(Deployments, p)
        \/ \E cause \in MetaCauses : ResourceChangingRegistry_iter(Deployments, cause)
        \/ \E cause \in MetaCauses : ResourceChangingRegistry_get(Deployments, cause)

SpecMeta == Init /\ [][NextMeta]_vars

\* ------------------------------------------------------------------------
\* SpecReason: handlers of a reason and of any reason, with and without a
\* field, of two callables.

ReplicasChanged == Some(<<<<"change", <<"spec", "replicas">>, 1, 3>>>>)

ReasonCauses ==
    {[DefaultCause EXCEPT !.reason = reason, !.diff = diff] :
        reason \in {"create", "update"}, diff \in {None, ReplicasChanged}}

NextReason ==
    LET ReasonArgs ==
            {[DefaultArgs EXCEPT !.fn = fn, !.reason = filter[1], !.event = filter[2], !.field = field] :
                fn \in Callbacks,
                filter \in {<<None, None>>, <<Some("create"), None>>, <<Some("update"), None>>,
                            <<None, Some("create")>>},
                field \in {None, Some(<<"spec", "replicas">>)}}
    IN  \/ \E p \in ReasonArgs : register_resource_changing_handler(Deployments, p)
        \/ \E cause \in ReasonCauses : ResourceChangingRegistry_iter(Deployments, cause)
        \/ \E cause \in ReasonCauses : ResourceChangingRegistry_get(Deployments, cause)
        \/ \E cause \in ReasonCauses : get_resource_changing_handlers(cause)

SpecReason == Init /\ [][NextReason]_vars

\* ------------------------------------------------------------------------
\* SpecInitial: handlers with initial= and deleted=, and causes which are
\* and are not initial, of resources which are and are not deleted.

TriState == {None, Some(TRUE), Some(FALSE)}

InitialCauses ==
    {[DefaultCause EXCEPT !.initial = initial, !.deleted = deleted] :
        initial \in BOOLEAN, deleted \in BOOLEAN}

NextInitial ==
    LET InitialArgs ==
            {[DefaultArgs EXCEPT !.initial = initial, !.deleted = deleted, !.reason = reason] :
                initial \in TriState, deleted \in TriState, reason \in {None, Some("create")}}
    IN  \/ \E p \in InitialArgs : register_resource_changing_handler(Deployments, p)
        \/ \E cause \in InitialCauses : ResourceChangingRegistry_iter(Deployments, cause)
        \/ \E cause \in InitialCauses : ResourceChangingRegistry_get(Deployments, cause)

SpecInitial == Init /\ [][NextInitial]_vars

\* ------------------------------------------------------------------------
\* SpecFinalizer: handlers which do and do not require the finalizer, with
\* and without a field, labels and a predicate.

FinalizerCauses ==
    {[DefaultCause EXCEPT !.body = body, !.diff = diff] :
        body \in {BodyNoMetadata, BodyProd},
        diff \in {None, Some(<<DiffItem(<<"spec">>)>>)}}

NextFinalizer ==
    LET FinalizerArgs ==
            {[DefaultArgs EXCEPT !.requires_finalizer = required, !.field = field,
                                 !.labels = labels, !.when = when] :
                required \in BOOLEAN, field \in {None, Some(<<"spec">>)},
                labels \in {None, Some(Prod)}, when \in {None, Some("never"), Some("has_metadata")}}
    IN  \/ \E p \in FinalizerArgs : register_resource_changing_handler(Deployments, p)
        \/ \E cause \in FinalizerCauses : requires_finalizer(Deployments, cause)
        \/ \E cause \in FinalizerCauses : ResourceChangingRegistry_requires(Deployments, cause)

SpecFinalizer == Init /\ [][NextFinalizer]_vars

\* ------------------------------------------------------------------------
\* What the claims speak of.

ActivitySelects == {"get_activity_handlers", "ActivityRegistry.get_handlers"}

WatchingSelects == {"get_resource_watching_handlers", "ResourceWatchingRegistry.get_handlers"}

ChangingSelects == {"get_resource_changing_handlers", "ResourceChangingRegistry.get_handlers"}

Selects == ActivitySelects \cup WatchingSelects \cup ChangingSelects

\* The cause (or the activity) of the select call which ret holds.
SelectCause ==
    IF ret.op \in {"ResourceWatchingRegistry.get_handlers",
                   "ResourceChangingRegistry.get_handlers"}
    THEN ret.arg[2] ELSE ret.arg

\* The handlers of the registry which the select call in ret went to, in
\* the order of their registration.
SelectRegistered ==
    CASE ret.op \in ActivitySelects -> activity_handlers
      [] ret.op = "get_resource_watching_handlers" ->
            IF ret.arg.resource \in DOMAIN resource_watching_handlers
            THEN resource_watching_handlers[ret.arg.resource] ELSE <<>>
      [] ret.op = "ResourceWatchingRegistry.get_handlers" ->
            resource_watching_handlers[ret.arg[1]]
      [] ret.op = "get_resource_changing_handlers" ->
            IF ret.arg.resource \in DOMAIN resource_changing_handlers
            THEN resource_changing_handlers[ret.arg.resource] ELSE <<>>
      [] ret.op = "ResourceChangingRegistry.get_handlers" ->
            resource_changing_handlers[ret.arg[1]]

\* The indices of the registered handlers which the select call in ret
\* matched, before the deduplication.
SelectMatchedIdx ==
    LET registered == SelectRegistered
        cause == SelectCause
    IN  CASE ret.op \in ActivitySelects ->
                LET regular == {i \in 1..Len(registered) : ActivityRegular(registered[i], cause)}
                IN  IF regular # {} THEN regular
                    ELSE {i \in 1..Len(registered) : ActivityFallback(registered[i], cause)}
          [] ret.op \in WatchingSelects ->
                {i \in 1..Len(registered) : match(registered[i], cause, {}, TRUE)}
          [] ret.op \in ChangingSelects ->
                {i \in 1..Len(registered) : ChangingYields(registered[i], cause)}

\* The elements of seq at the indices idx, in the order of seq.
AtIndices(seq, idx) ==
    [k \in 1..Cardinality(idx) |->
        seq[CHOOSE i \in idx : Cardinality({j \in idx : j <= i}) = k]]

\* The matched indices with no earlier matched index of the same callable.
FirstOfCallable(registered, matched) ==
    {i \in matched : \A j \in matched : j < i => registered[j].fn.obj # registered[i].fn.obj}

\* a is b with some elements left out.
RECURSIVE IsSubsequence(_, _)
IsSubsequence(a, b) ==
    IF a = <<>> THEN TRUE
    ELSE IF b = <<>> THEN FALSE
    ELSE IF Head(a) = Head(b) THEN IsSubsequence(Tail(a), Tail(b))
    ELSE IsSubsequence(a, Tail(b))

\* The candidates of an activity: the handlers of that or of no activity.
IsCandidate(handler, activity) ==
    handler.activity = None \/ handler.activity = Some(activity)

\* ------------------------------------------------------------------------
\* The claims.

\* C1: when some registered non-fallback handler is a candidate for the
\* activity, get_handlers() returns non-fallback candidates only; no handler
\* registered as a fallback is returned, whatever its activity.
C1_OnlyRegularWhenRegularCandidate ==
    (/\ ret.op \in ActivitySelects
     /\ \E i \in 1..Len(activity_handlers) :
           ~activity_handlers[i].fallback /\ IsCandidate(activity_handlers[i], ret.arg))
    => \A k \in 1..Len(ret.val) :
           ~ret.val[k].fallback /\ IsCandidate(ret.val[k], ret.arg)

\* C2: a select call never returns two handlers of the same callable; what
\* it returns is, for every callable with a matching registration, the
\* earliest matching registration of it, at the place of that first match;
\* a matched handler is left out only if an earlier matched handler has the
\* same callable, whatever the ids are.
C2_FirstOfEachCallable ==
    ret.op \in Selects =>
        LET registered == SelectRegistered
            matched == SelectMatchedIdx
        IN  /\ \A k, l \in 1..Len(ret.val) :
                   k # l => ret.val[k].fn.obj # ret.val[l].fn.obj
            /\ ret.val = AtIndices(registered, FirstOfCallable(registered, matched))
            /\ \A i \in matched :
                   (\A k \in 1..Len(ret.val) : ret.val[k] # registered[i])
                   => \E j \in matched : j < i /\ registered[j].fn.obj = registered[i].fn.obj
            /\ \A i \in matched :
                   (\A j \in matched : j < i => registered[j].fn.obj # registered[i].fn.obj)
                   => \E k \in 1..Len(ret.val) : ret.val[k] = registered[i]

\* A select call has dropped a handler whose callable was matched before
\* under another id.
C2_Witness ==
    /\ ret.op \in Selects
    /\ \E i, j \in SelectMatchedIdx :
          /\ i < j
          /\ SelectRegistered[i].fn.obj = SelectRegistered[j].fn.obj
          /\ SelectRegistered[i].id # SelectRegistered[j].id
    /\ Len(ret.val) = 1

\* C3: what a select call returns is a subsequence of the registry's
\* handlers in the order of their registration: of two returned handlers,
\* the one registered first comes first.
C3_RegistrationOrder ==
    ret.op \in Selects =>
        LET registered == SelectRegistered
            Once(i) == \A j \in 1..Len(registered) : registered[j] = registered[i] => j = i
            Pos(i) == CHOOSE k \in 1..Len(ret.val) : ret.val[k] = registered[i]
            Returned(i) == \E k \in 1..Len(ret.val) : ret.val[k] = registered[i]
        IN  /\ IsSubsequence(ret.val, registered)
            /\ \A i, j \in 1..Len(registered) :
                   (i < j /\ Once(i) /\ Once(j) /\ Returned(i) /\ Returned(j))
                   => Pos(i) < Pos(j)

\* A select call has returned two handlers.
C3_Witness ==
    /\ ret.op \in Selects
    /\ Len(ret.val) >= 2

\* C9: when no registered non-fallback handler is a candidate for the
\* activity, get_handlers() returns exactly the fallback handlers which are
\* candidates for it, in the order of registration, deduplicated.
C9_AllFallbackCandidatesWhenNoRegular ==
    (/\ ret.op \in ActivitySelects
     /\ ~\E i \in 1..Len(activity_handlers) :
           ~activity_handlers[i].fallback /\ IsCandidate(activity_handlers[i], ret.arg))
    => LET candidates == {i \in 1..Len(activity_handlers) :
                             /\ activity_handlers[i].fallback
                             /\ IsCandidate(activity_handlers[i], ret.arg)}
       IN  ret.val = AtIndices(activity_handlers,
                               FirstOfCallable(activity_handlers, candidates))

ChangingYieldOps == ChangingSelects \cup {"ResourceChangingRegistry.iter_handlers"}

\* The cause of the call in ret, and the handlers of the registry asked.
YieldCause == IF ret.op = "get_resource_changing_handlers" THEN ret.arg ELSE ret.arg[2]

YieldRegistered ==
    LET resource == IF ret.op = "get_resource_changing_handlers"
                    THEN ret.arg.resource ELSE ret.arg[1]
    IN  IF resource \in DOMAIN resource_changing_handlers
        THEN resource_changing_handlers[resource] ELSE <<>>

\* The handler is in what the call in ret returned.
Selected(handler) == \E k \in 1..Len(ret.val) : ret.val[k] = handler

\* The call in ret has selected the handler exactly if it passes: the
\* iteration yields it if and only if it does; the deduplicating calls
\* return it only if it does, and if it does, they return it or the earlier
\* registration of its callable.
SelectedIff(handler, passes) ==
    IF ret.op \in {"ResourceWatchingRegistry.iter_handlers",
                   "ResourceChangingRegistry.iter_handlers"}
    THEN Selected(handler) <=> passes
    ELSE /\ Selected(handler) => passes
         /\ passes => \E k \in 1..Len(ret.val) : ret.val[k].fn.obj = handler.fn.obj

\* The rules of the selection, each by itself.
ReasonRule(handler, cause) ==
    handler.reason = None \/ handler.reason[1] = cause.reason

InitialRule(handler, cause) ==
    handler.initial = Some(TRUE) =>
        (cause.initial /\ (cause.deleted => handler.deleted = Some(TRUE)))

SelectorRule(selector, content) ==
    \/ selector = None
    \/ DOMAIN selector[1] = {}
    \/ /\ content # None
       /\ \A key \in DOMAIN selector[1] :
             /\ key \in DOMAIN content[1]
             /\ selector[1][key] # None => content[1][key] = selector[1][key][1]

LabelRule(handler, cause) ==
    SelectorRule(handler.labels,
                 IF cause.body.metadata = None THEN None ELSE cause.body.metadata[1].labels)

AnnotationRule(handler, cause) ==
    SelectorRule(handler.annotations,
                 IF cause.body.metadata = None THEN None ELSE cause.body.metadata[1].annotations)

PredicateRule(handler, cause) ==
    handler.when = None \/ invoke_when(handler.when[1], cause)

\* path is prefix itself or a descendant of it.
IsPrefix(prefix, path) ==
    /\ Len(prefix) <= Len(path)
    /\ \A k \in 1..Len(prefix) : path[k] = prefix[k]

HasField(handler) == handler.field # None /\ handler.field[1] # <<>>

FieldRule(handler, cause) ==
    HasField(handler) =>
        /\ cause.diff # None
        /\ \E k \in 1..Len(cause.diff[1]) : IsPrefix(handler.field[1], cause.diff[1][k][2])

\* C4: a handler with a field which passes every other rule is matched if
\* and only if some field of the diff is the handler's field or below it; a
\* handler without a field passes for every diff, also none and the empty.
C4_FieldIsPrefixOfChange ==
    ret.op \in ChangingYieldOps =>
        LET cause == YieldCause
            registered == YieldRegistered
        IN  /\ \A k \in 1..Len(ret.val) : FieldRule(ret.val[k], cause)
            /\ \A i \in 1..Len(registered) :
                   (/\ ReasonRule(registered[i], cause)
                    /\ InitialRule(registered[i], cause)
                    /\ LabelRule(registered[i], cause)
                    /\ AnnotationRule(registered[i], cause)
                    /\ PredicateRule(registered[i], cause))
                   => SelectedIff(registered[i], FieldRule(registered[i], cause))

\* The diff has nothing but a field above the field of a handler, which is
\* left out, while the handler of the changed field itself is yielded.
C4_Witness ==
    /\ ret.op = "ResourceChangingRegistry.iter_handlers"
    /\ ret.arg[2].diff = Some(<<DiffItem(<<"spec">>)>>)
    /\ \E i, j \in 1..Len(YieldRegistered) :
          /\ YieldRegistered[i].field = Some(<<"spec", "replicas">>)
          /\ YieldRegistered[i].reason = None
          /\ YieldRegistered[j].field = Some(<<"spec">>)
          /\ YieldRegistered[j].reason = None
    /\ Len(ret.val) = 1
    /\ ret.val[1].field = Some(<<"spec">>)

\* C5: a handler passes the rule of the labels (of the annotations) if and
\* only if its selector is unset or empty, or every key of it is among the
\* labels (annotations) of the body and every value of it which is not None
\* equals the body's; a body without metadata or without labels
\* (annotations) fails every selector which is not empty.
C5_SelectorsOfLabelsAndAnnotations ==
    ret.op \in ChangingYieldOps =>
        LET cause == YieldCause
            registered == YieldRegistered
        IN  /\ \A k \in 1..Len(ret.val) :
                   LabelRule(ret.val[k], cause) /\ AnnotationRule(ret.val[k], cause)
            /\ \A i \in 1..Len(registered) :
                   (/\ ReasonRule(registered[i], cause)
                    /\ InitialRule(registered[i], cause)
                    /\ FieldRule(registered[i], cause)
                    /\ PredicateRule(registered[i], cause))
                   => SelectedIff(registered[i],
                                  /\ LabelRule(registered[i], cause)
                                  /\ AnnotationRule(registered[i], cause))

\* Of two handlers, the one which asks for the label env of any value is
\* yielded for a body of env=staging, the one which asks for env=prod is not.
C5_Witness ==
    /\ ret.op = "ResourceChangingRegistry.iter_handlers"
    /\ ret.arg[2].body = BodyOf(Some("env" :> "staging"), None)
    /\ \E i \in 1..Len(YieldRegistered) : YieldRegistered[i].labels = Some(Prod)
    /\ Len(ret.val) = 1
    /\ ret.val[1].labels = Some("env" :> None)

\* The handler has no filter but its reason and its field.
OnlyReasonAndField(handler) ==
    /\ handler.initial = None /\ handler.deleted = None
    /\ handler.labels = None /\ handler.annotations = None /\ handler.when = None

\* C6: a handler of a reason is returned only for the causes of that
\* reason, and a handler of no reason is excluded by no reason. With H1 (of
\* the reason create, of no field) registered before H2 (of no reason, of the
\* field spec.replicas), a cause which changes spec.replicas and is neither
\* initial nor of a deleted resource selects [H1, H2] if its reason is create
\* and [H2] if it is update.
C6_ReasonFilter ==
    ret.op \in ChangingYieldOps =>
        LET cause == YieldCause
            registered == YieldRegistered
        IN  /\ \A k \in 1..Len(ret.val) :
                   ret.val[k].reason # None => ret.val[k].reason[1] = cause.reason
            /\ \A i \in 1..Len(registered) :
                   (/\ InitialRule(registered[i], cause)
                    /\ FieldRule(registered[i], cause)
                    /\ LabelRule(registered[i], cause)
                    /\ AnnotationRule(registered[i], cause)
                    /\ PredicateRule(registered[i], cause))
                   => SelectedIff(registered[i], ReasonRule(registered[i], cause))
            /\ (/\ ret.op \in ChangingSelects
                /\ Len(registered) = 2
                /\ registered[1].reason = Some("create") /\ registered[1].field = None
                /\ registered[2].reason = None
                /\ registered[2].field = Some(<<"spec", "replicas">>)
                /\ registered[1].fn.obj # registered[2].fn.obj
                /\ OnlyReasonAndField(registered[1]) /\ OnlyReasonAndField(registered[2])
                /\ ~cause.initial /\ ~cause.deleted
                /\ cause.diff = ReplicasChanged)
               => /\ cause.reason = "create" => ret.val = <<registered[1], registered[2]>>
                  /\ cause.reason = "update" => ret.val = <<registered[2]>>

\* H1 and H2 are registered and a cause of the reason update which changes
\* spec.replicas has selected H2 alone.
C6_Witness ==
    /\ ret.op = "get_resource_changing_handlers"
    /\ ret.arg.reason = "update"
    /\ ret.arg.diff = ReplicasChanged
    /\ Len(YieldRegistered) = 2
    /\ YieldRegistered[1].reason = Some("create") /\ YieldRegistered[1].field = None
    /\ YieldRegistered[2].reason = None
    /\ YieldRegistered[2].field = Some(<<"spec", "replicas">>)
    /\ YieldRegistered[1].fn.obj # YieldRegistered[2].fn.obj
    /\ ret.val = <<YieldRegistered[2]>>

\* The rules of the selection but the one of the initial causes.
RulesButInitial(handler, cause) ==
    /\ ReasonRule(handler, cause)
    /\ FieldRule(handler, cause)
    /\ LabelRule(handler, cause)
    /\ AnnotationRule(handler, cause)
    /\ PredicateRule(handler, cause)

\* C7: a handler of initial=True is never returned for a cause which is not
\* initial; for an initial cause of a deleted resource it is never returned
\* if its deleted= is unset or false, and it is selected if deleted=True and
\* the other rules pass. A handler whose initial= is unset or false is never
\* excluded for the cause being initial or not, deleted or not.
C7_InitialAndDeleted ==
    ret.op \in ChangingYieldOps =>
        LET cause == YieldCause
            registered == YieldRegistered
        IN  /\ \A k \in 1..Len(ret.val) :
                   ret.val[k].initial = Some(TRUE) =>
                       /\ cause.initial
                       /\ cause.deleted => ret.val[k].deleted = Some(TRUE)
            /\ \A i \in 1..Len(registered) :
                   (/\ registered[i].initial = Some(TRUE)
                    /\ registered[i].deleted = Some(TRUE)
                    /\ cause.initial /\ cause.deleted
                    /\ RulesButInitial(registered[i], cause))
                   => SelectedIff(registered[i], TRUE)
            /\ \A i \in 1..Len(registered) :
                   (/\ registered[i].initial # Some(TRUE)
                    /\ RulesButInitial(registered[i], cause))
                   => SelectedIff(registered[i], TRUE)

\* An initial cause of a deleted resource has selected the initial handler
\* of deleted=True and left out the initial handler of no deleted=.
C7_Witness ==
    /\ ret.op = "ResourceChangingRegistry.iter_handlers"
    /\ ret.arg[2].initial /\ ret.arg[2].deleted
    /\ \E i \in 1..Len(YieldRegistered) :
          /\ YieldRegistered[i].initial = Some(TRUE)
          /\ YieldRegistered[i].deleted = None
          /\ YieldRegistered[i].reason = None
    /\ Len(ret.val) = 1
    /\ ret.val[1].initial = Some(TRUE)
    /\ ret.val[1].deleted = Some(TRUE)

\* C8: requires_finalizer() is true if and only if some registered handler
\* requires the finalizer and passes the rules of the labels, of the
\* annotations and of the predicate; its field, if it has one, and the diff
\* do not count.
C8_FinalizerIgnoresField ==
    ret.op \in {"requires_finalizer", "ResourceChangingRegistry.requires_finalizer"} =>
        LET cause == ret.arg[2]
            registered == YieldRegistered
        IN  ret.val <=> \E i \in 1..Len(registered) :
                           /\ registered[i].requires_finalizer
                           /\ LabelRule(registered[i], cause)
                           /\ AnnotationRule(registered[i], cause)
                           /\ PredicateRule(registered[i], cause)

\* ------------------------------------------------------------------------
\* SpecWhen: handlers with predicates which return and which raise, for
\* causes of resources with and without metadata.

NextWhen ==
    LET WhenArgs ==
            {[DefaultArgs EXCEPT !.when = when, !.reason = reason, !.requires_finalizer = required] :
                when \in {None, Some("always"), Some("raises"), Some("labelled")},
                reason \in {None, Some("create")}, required \in BOOLEAN}
        WhenCauses ==
            {[DefaultCause EXCEPT !.body = body, !.reason = reason] :
                body \in {BodyNoMetadata, BodyProd}, reason \in {"create", "update"}}
    IN  \/ \E p \in WhenArgs : register_resource_changing_handler(Deployments, p)
        \/ \E when \in {None, Some("raises"), Some("labelled")} :
              register_resource_watching_handler(Deployments, Fn1, None, None, None, when)
        \/ \E cause \in WhenCauses : get_resource_watching_handlers(cause)
        \/ \E cause \in WhenCauses : get_resource_changing_handlers(cause)
        \/ \E cause \in WhenCauses : ResourceChangingRegistry_iter(Deployments, cause)
        \/ \E cause \in WhenCauses : requires_finalizer(Deployments, cause)

SpecWhen == Init /\ [][NextWhen]_vars

\* The calls which evaluate the predicates of the handlers.
FinalizerOps == {"requires_finalizer", "ResourceChangingRegistry.requires_finalizer"}

\* The calls which select the handlers of a watching cause, the one which
\* does not deduplicate them included.
WatchingYieldOps == WatchingSelects \cup {"ResourceWatchingRegistry.iter_handlers"}

PredicateOps == WatchingYieldOps \cup ChangingYieldOps \cup FinalizerOps

\* The cause of such a call in ret, and the handlers of the registry asked.
PredicateCause ==
    IF ret.op \in {"get_resource_watching_handlers", "get_resource_changing_handlers"}
    THEN ret.arg ELSE ret.arg[2]

PredicateRegistered ==
    LET resource == IF ret.op \in {"get_resource_watching_handlers",
                                   "get_resource_changing_handlers"}
                    THEN ret.arg.resource ELSE ret.arg[1]
        map == IF ret.op \in WatchingYieldOps
               THEN resource_watching_handlers ELSE resource_changing_handlers
    IN  IF resource \in DOMAIN map THEN map[resource] ELSE <<>>

\* The predicate of the handler raises for the cause.
PredicateRaises(handler, cause) ==
    handler.when # None /\ when_raises(handler.when[1], cause) # None

\* The call in ret gets as far as the predicate of the i-th handler, if no
\* predicate before it raises: a watching select evaluates every predicate,
\* a changing select those of the handlers of the reason and the initial
\* state of the cause, requires_finalizer() those of the handlers which
\* require the finalizer, up to the first one which matches.
PredicateEvaluated(registered, i, cause) ==
    CASE ret.op \in WatchingYieldOps -> TRUE
      [] ret.op \in ChangingYieldOps ->
            ReasonRule(registered[i], cause) /\ InitialRule(registered[i], cause)
      [] ret.op \in FinalizerOps ->
            /\ registered[i].requires_finalizer
            /\ \A j \in 1..(i-1) :
                  ~(/\ registered[j].requires_finalizer
                    /\ ~PredicateRaises(registered[j], cause)
                    /\ match(registered[j], cause, {}, FALSE))

\* C11: when the predicate of a handler raises while a resource select or
\* requires_finalizer() evaluates it, the call ends with that same error and
\* returns no value, and the registries are what they were before the call.
C11_PredicateErrorPropagates ==
    /\ [](ret.op \in PredicateOps =>
            LET cause == PredicateCause
                registered == PredicateRegistered
                raising == {i \in 1..Len(registered) :
                               /\ PredicateEvaluated(registered, i, cause)
                               /\ PredicateRaises(registered[i], cause)}
                first == CHOOSE i \in raising : \A j \in raising : i <= j
            IN  raising # {} =>
                   /\ ret.exc = when_raises(registered[first].when[1], cause)
                   /\ ret.exc # None
                   /\ ret.val = None)
    /\ [][(ret'.op \in PredicateOps /\ ret'.exc # None) => UNCHANGED registries]_vars

\* A select has ended with the KeyError of the predicate of the second
\* handler, after the first handler had matched the cause.
C11_Witness ==
    /\ ret.op = "get_resource_changing_handlers"
    /\ ret.exc = Some("KeyError")
    /\ ret.val = None
    /\ Len(PredicateRegistered) = 2
    /\ PredicateRegistered[1].when = None
    /\ PredicateRegistered[1].reason = None
    /\ PredicateRegistered[2].when = Some("labelled")

\* ------------------------------------------------------------------------
\* SpecQuery: every call which reads, of the operator's registry and of the
\* registries it holds, between a few registrations.

NextQuery ==
    LET QueryArgs ==
            {[DefaultArgs EXCEPT !.field = field, !.requires_finalizer = required] :
                field \in {None, Some(<<"spec">>)}, required \in BOOLEAN}
    IN  \/ register_activity_handler(Fn1, None, None, FALSE)
        \/ \E resource \in Resources :
              register_resource_watching_handler(resource, Fn1, None, None, None, None)
        \/ \E resource \in Resources, p \in QueryArgs :
              register_resource_changing_handler(resource, p)
        \/ resources
        \/ has_activity_handlers
        \/ \E resource \in Resources : has_resource_watching_handlers(resource)
        \/ \E resource \in Resources : has_resource_changing_handlers(resource)
        \/ \E activity \in Activities : get_activity_handlers(activity)
        \/ \E cause \in WatchingCauses : get_resource_watching_handlers(cause)
        \/ \E cause \in ChangingCauses : get_resource_changing_handlers(cause)
        \/ \E resource \in Resources : get_extra_fields(resource)
        \/ \E cause \in ChangingCauses : requires_finalizer(cause.resource, cause)
        \/ \E activity \in Activities : ActivityRegistry_get(activity)
        \/ \E cause \in WatchingCauses : ResourceWatchingRegistry_get(cause.resource, cause)
        \/ \E cause \in ChangingCauses : ResourceChangingRegistry_get(cause.resource, cause)
        \/ \E cause \in ChangingCauses : ResourceChangingRegistry_iter(cause.resource, cause)
        \/ \E cause \in ChangingCauses : ResourceChangingRegistry_requires(cause.resource, cause)

SpecQuery == Init /\ [][NextQuery]_vars

\* The calls which register a handler; every other call reads.
RegisterOps ==
    {"register_activity_handler", "register_resource_watching_handler",
     "register_resource_changing_handler"}

\* C12: a call which selects or queries leaves the lists of handlers and the
\* keys of both maps as they were, also when it is made for a resource which
\* has no registry; the same call made again at once returns the same.
C12_QueriesChangeNothing ==
    [][ret'.op \notin RegisterOps =>
          /\ activity_handlers' = activity_handlers
          /\ DOMAIN resource_watching_handlers' = DOMAIN resource_watching_handlers
          /\ DOMAIN resource_changing_handlers' = DOMAIN resource_changing_handlers
          /\ resource_watching_handlers' = resource_watching_handlers
          /\ resource_changing_handlers' = resource_changing_handlers
          /\ (ret.op = ret'.op /\ ret.arg = ret'.arg) => ret' = ret]_vars

\* The handlers of a resource without a registry were asked for, twice or
\* more, and the maps still have no entry for it.
C12_Witness ==
    /\ ret.op = "has_resource_watching_handlers"
    /\ ret.val = FALSE
    /\ ret.arg \notin DOMAIN resource_watching_handlers
    /\ ret.arg \notin DOMAIN resource_changing_handlers
    /\ DOMAIN resource_watching_handlers # {}
    /\ DOMAIN resource_changing_handlers # {}

\* ------------------------------------------------------------------------
\* SpecIds: generate_id() for callables of every sort, and the ids of the
\* handlers registered with and without a field.

Method == [obj |-> 3, type |-> "method", qualname |-> "Cls.method"]

Lambda ==
    [obj |-> 4, qualname |-> "<lambda>", name |-> "<lambda>",
     code |-> [co_filename |-> "ops.py", co_firstlineno |-> 12]]

\* functools.partial(c), and a function which functools.wraps(c) has marked.
PartialOf(obj, c) == [obj |-> obj, type |-> "partial", func |-> c]

WrapperOf(obj, c) == [obj |-> obj, qualname |-> "wrapper", wrapped |-> c]

\* A class, and an object with __call__: neither a function nor a method.
Class == [obj |-> 8, type |-> "type", qualname |-> "Cls"]

Instance == [obj |-> 9, type |-> "object"]

NamedCallables ==
    {Fn1, Method, Lambda, PartialOf(5, Fn1), PartialOf(6, WrapperOf(7, Method)),
     WrapperOf(10, Lambda), WrapperOf(11, PartialOf(5, Fn1))}

NextIds ==
    LET Affixes == {None, Some(""), Some("p")}
        IdArgs ==
            {[DefaultArgs EXCEPT !.fn = fn, !.field = field] :
                fn \in {Fn1, PartialOf(5, Fn1)}, field \in {None, Some(<<"spec", "replicas">>)}}
    IN  \/ \E fn \in NamedCallables, id \in Ids, prefix \in Affixes, suffix \in Affixes :
              generate_id_call(fn, id, prefix, suffix)
        \/ register_resource_changing_handler(Deployments, DefaultArgs)
        \/ \E p \in IdArgs : ResourceChangingRegistry_register(Deployments, p)

SpecIds == Init /\ [][NextIds]_vars

\* The callable inside the partials and the wrappers, at any depth.
RECURSIVE Innermost(_)
Innermost(c) ==
    IF "func" \in DOMAIN c THEN Innermost(c.func)
    ELSE IF "wrapped" \in DOMAIN c THEN Innermost(c.wrapped)
    ELSE c

\* The identity derived from a callback.
CallbackIdentity(fn) ==
    LET c == Innermost(fn)
    IN  IF "code" \in DOMAIN c
        THEN "lambda:" \o c.code.co_filename \o ":" \o ToString(c.code.co_firstlineno)
        ELSE c.qualname

NonEmpty(affix) == affix # None /\ affix[1] # ""

\* C13: generate_id() returns the explicit id, or else the identity of the
\* callback, followed by "/" and the suffix if there is a non-empty one, all
\* of it preceded by the prefix and "/" if there is a non-empty one; a
\* resource handler registered with no id= gets the identity of its callback,
\* followed by "/p1.p2" if it has the field p1.p2 and by nothing if it has none.
C13_IdOfBaseSuffixPrefix ==
    /\ (ret.op = "generate_id" /\ ret.exc = None) =>
          LET fn == ret.arg[1]
              id == ret.arg[2]
              prefix == ret.arg[3]
              suffix == ret.arg[4]
              base == IF id # None THEN id[1] ELSE CallbackIdentity(fn)
              suffixed == IF NonEmpty(suffix) THEN base \o "/" \o suffix[1] ELSE base
          IN  ret.val = IF NonEmpty(prefix) THEN prefix[1] \o "/" \o suffixed ELSE suffixed
    /\ (ret.op = "ResourceChangingRegistry.register" /\ ret.exc = None /\ ret.arg[2].id = None) =>
          LET registered == resource_changing_handlers[ret.arg[1]]
              field == ret.arg[2].field
          IN  registered[Len(registered)].id =
                 IF field = None THEN CallbackIdentity(ret.arg[2].fn)
                 ELSE CallbackIdentity(ret.arg[2].fn) \o "/" \o field[1][1] \o "." \o field[1][2]

\* The id of a partial of a wrapper of a method, with a prefix and a suffix.
C13_Witness ==
    /\ ret.op = "generate_id"
    /\ ret.arg = <<PartialOf(6, WrapperOf(7, Method)), None, Some("p"), Some("p")>>
    /\ ret.val = "p/Cls.method/p"

\* ------------------------------------------------------------------------
\* SpecInvalid: registrations and generate_id() for callbacks of which no
\* identity can be derived, with and without an explicit id.

NextInvalid ==
    LET InvalidCallables == {None, Class, Instance, PartialOf(12, Instance)}
        InvalidArgs ==
            {[DefaultArgs EXCEPT !.fn = fn, !.id = id] :
                fn \in {Fn1, None, Instance}, id \in Ids}
    IN  \/ \E fn \in NamedCallables \cup InvalidCallables, id \in Ids :
              generate_id_call(fn, id, None, None)
        \/ \E p \in InvalidArgs :
              NumHandlers < MaxHandlers /\ register_activity_handler(p.fn, p.id, None, FALSE)
        \/ \E p \in InvalidArgs :
              register_resource_watching_handler(Deployments, p.fn, p.id, None, None, None)
        \/ \E p \in InvalidArgs : register_resource_changing_handler(Deployments, p)
        \/ \E p \in InvalidArgs : ResourceChangingRegistry_register(Deployments, p)

SpecInvalid == Init /\ [][NextInvalid]_vars

\* No identity can be derived from the callback: it is None, or what is
\* inside its partials and wrappers is neither a function nor a method.
Underivable(fn) ==
    LET c == Innermost(fn)
    IN  c = None \/ type_of(c) \notin {"function", "method"}

\* The handlers of all the registries.
AllHandlers ==
    Range(activity_handlers)
    \cup UNION {Range(resource_watching_handlers[resource]) :
                   resource \in DOMAIN resource_watching_handlers}
    \cup UNION {Range(resource_changing_handlers[resource]) :
                   resource \in DOMAIN resource_changing_handlers}

\* C14: a registration or a generate_id() call whose callback has no
\* derivable identity fails with the error of the invalid callable, with or
\* without an explicit id, and no registry holds a handler of such a callback.
C14_InvalidCallableAlwaysFails ==
    /\ (ret.op \in {"generate_id", "ResourceChangingRegistry.register"}
        /\ Underivable(IF ret.op = "generate_id" THEN ret.arg[1] ELSE ret.arg[2].fn))
          => ret.exc = Some("ValueError")
    /\ \A handler \in AllHandlers : ~Underivable(handler.fn)

\* ------------------------------------------------------------------------
\* SpecExtra: handlers with no field, with the empty field and with fields,
\* in the watching and the changing registries of two resources.

NextExtra ==
    LET ExtraArgs ==
            {[DefaultArgs EXCEPT !.field = field] :
                field \in {None, Some(<<>>), Some(<<"spec">>), Some(<<"status", "phase">>)}}
    IN  \/ \E resource \in Resources, p \in ExtraArgs : ResourceWatchingRegistry_register(resource, p)
        \/ \E resource \in Resources, p \in ExtraArgs : register_resource_changing_handler(resource, p)
        \/ \E resource \in Resources : get_extra_fields(resource)
        \/ \E resource \in Resources : ResourceWatchingRegistry_get_extra_fields(resource)
        \/ \E resource \in Resources : ResourceChangingRegistry_get_extra_fields(resource)

SpecExtra == Init /\ [][NextExtra]_vars

\* The fields of the handlers of a list which have a non-empty one.
FieldsOf(registered) ==
    {registered[i].field[1] : i \in {j \in 1..Len(registered) : HasField(registered[j])}}

\* C15: get_extra_fields() of a registry is the set of the non-empty fields
\* of its handlers; get_extra_fields(resource) of the operator's registry is
\* that set of the changing registry of the resource, and the empty set if it
\* has none: the other resources and the watching registries add nothing.
C15_ExtraFieldsOfChangingRegistry ==
    /\ ret.op = "ResourceWatchingRegistry.get_extra_fields" =>
          ret.val = FieldsOf(resource_watching_handlers[ret.arg])
    /\ ret.op = "ResourceChangingRegistry.get_extra_fields" =>
          ret.val = FieldsOf(resource_changing_handlers[ret.arg])
    /\ ret.op = "get_extra_fields" =>
          ret.val = IF ret.arg \in DOMAIN resource_changing_handlers
                    THEN FieldsOf(resource_changing_handlers[ret.arg]) ELSE {}

\* The extra fields of a resource were asked for while its watching registry
\* holds a handler with another field, and are the field of its one changing handler.
C15_Witness ==
    /\ ret.op = "get_extra_fields"
    /\ ret.val = {<<"spec">>}
    /\ ret.arg \in DOMAIN resource_watching_handlers
    /\ FieldsOf(resource_watching_handlers[ret.arg]) = {<<"status", "phase">>}

\* ------------------------------------------------------------------------
\* SpecWatching: a watching registry whose handlers have fields, labels,
\* annotations and predicates, asked for causes of bodies with and without
\* the labels and the annotations.

NextWatching ==
    LET WatchingArgs ==
            {[DefaultArgs EXCEPT !.field = field, !.labels = labels,
                                 !.annotations = annotations, !.when = when] :
                field \in {None, Some(<<"spec">>)}, labels \in {None, Some(Prod)},
                annotations \in {None, Some(Prod)}, when \in {None, Some("never")}}
        FieldWatchingCauses ==
            {[resource |-> Deployments, body |-> body] :
                body \in {BodyNoMetadata, BodyOf(Some("env" :> "prod"), None),
                          BodyOf(Some("env" :> "prod"), Some("env" :> "prod"))}}
    IN  \/ \E p \in WatchingArgs : ResourceWatchingRegistry_register(Deployments, p)
        \/ \E cause \in FieldWatchingCauses : get_resource_watching_handlers(cause)
        \/ \E cause \in FieldWatchingCauses : ResourceWatchingRegistry_get(Deployments, cause)
        \/ \E cause \in FieldWatchingCauses : ResourceWatchingRegistry_iter(Deployments, cause)

SpecWatching == Init /\ [][NextWatching]_vars

\* C16: a watching select never applies the rule of the field: a handler of
\* a watching registry, with a field or without one, is selected if and only
\* if it passes the rules of the labels, of the annotations and of the
\* predicate (the deduplication aside).
C16_WatchingIgnoresField ==
    ret.op \in WatchingYieldOps =>
        LET cause == PredicateCause
            registered == PredicateRegistered
        IN  \A i \in 1..Len(registered) :
               SelectedIff(registered[i],
                           /\ LabelRule(registered[i], cause)
                           /\ AnnotationRule(registered[i], cause)
                           /\ PredicateRule(registered[i], cause))

\* A watching cause has selected a handler which has a field, and left out
\* a handler with the same field whose labels the body does not have.
C16_Witness ==
    /\ ret.op = "ResourceWatchingRegistry.iter_handlers"
    /\ ret.arg[2].body = BodyNoMetadata
    /\ Len(PredicateRegistered) = 2
    /\ PredicateRegistered[1].field = Some(<<"spec">>)
    /\ PredicateRegistered[2].field = Some(<<"spec">>)
    /\ PredicateRegistered[2].labels = Some(Prod)
    /\ ret.val = <<PredicateRegistered[1]>>

\* ------------------------------------------------------------------------
\* SpecDefault: get_default_registry() and set_default_registry(), called
\* one after the other, and registrations on the registry which a get returned.

\* The registries which the caller has made to set them as the default one.
UserRegistries == {<<"OperatorRegistry", 1>>, <<"OperatorRegistry", 2>>}

\* The registries which get_default_registry() has made.
SmartRegistries(heap) == {r \in DOMAIN heap : r[1] = "SmartGlobalRegistry"}

\* SmartGlobalRegistry(): the handlers of a new one.
SmartGlobalRegistry(with_pykube, with_client) == SmartHandlers(with_pykube, with_client)

InitDefault ==
    /\ activity_handlers = <<>>
    /\ resource_watching_handlers = <<>>
    /\ resource_changing_handlers = <<>>
    /\ ret = NoCall
    /\ default_registry = None
    /\ instances = [r \in UserRegistries |-> <<>>]
    /\ threads = <<>>

\* As get_default_registry(), but a new registry is made at every call.
get_default_registry_always_new ==
    /\ \E with_pykube \in BOOLEAN, with_client \in BOOLEAN :
          LET new == <<"SmartGlobalRegistry", Cardinality(SmartRegistries(instances)) + 1>>
          IN  /\ Cardinality(SmartRegistries(instances)) < MaxActivityHandlers
              /\ instances' = instances @@ (new :> SmartGlobalRegistry(with_pykube, with_client))
              /\ default_registry' = Some(new)
              /\ ret' = [exc |-> None, op |-> "get_default_registry", arg |-> None, val |-> new]
    /\ UNCHANGED <<registries, threads>>

get_default_registry ==
    /\ IF default_registry = None
       THEN \E with_pykube \in BOOLEAN, with_client \in BOOLEAN :
               LET new == <<"SmartGlobalRegistry", Cardinality(SmartRegistries(instances)) + 1>>
               IN  /\ instances' = instances @@ (new :> SmartGlobalRegistry(with_pykube, with_client))
                   /\ default_registry' = Some(new)
                   /\ ret' = [exc |-> None, op |-> "get_default_registry", arg |-> None, val |-> new]
       ELSE /\ ret' = [exc |-> None, op |-> "get_default_registry", arg |-> None,
                       val |-> default_registry[1]]
            /\ UNCHANGED <<default_registry, instances>>
    /\ UNCHANGED <<registries, threads>>

set_default_registry(registry) ==
    /\ default_registry' = Some(registry)
    /\ ret' = [exc |-> None, op |-> "set_default_registry", arg |-> registry, val |-> None]
    /\ UNCHANGED <<registries, instances, threads>>

\* registry.register_activity_handler(fn) on the registry which the call
\* before, a get_default_registry(), has returned.
register_on_default(fn) ==
    /\ ret.op = "get_default_registry"
    /\ Len(instances[ret.val]) < MaxActivityHandlers
    /\ instances' = [instances EXCEPT ![ret.val] = Append(@, ActivityHandler(fn, None, None, FALSE))]
    /\ ret' = [exc |-> None, op |-> "register_on_default", arg |-> ret.val, val |-> fn]
    /\ UNCHANGED <<registries, default_registry, threads>>

NextDefault ==
    \/ get_default_registry
    \/ \E registry \in UserRegistries : set_default_registry(registry)
    \/ register_on_default(Fn1)

SpecDefault == InitDefault /\ [][NextDefault]_vars

\* C17: in calls made one after the other, a get returns the registry of the
\* set before it and the registry of the get before it, also with a
\* registration on that registry in between, whose handler the registry
\* returned then holds; a registry is made by the first call of all only,
\* when that is a get, and never after a set.
C17_GetReturnsLastSetOrFirstBuilt ==
    [][/\ (ret'.op = "get_default_registry" /\ ret.op = "set_default_registry")
             => ret'.val = ret.arg
       /\ (ret'.op = "get_default_registry" /\ ret.op = "get_default_registry")
             => ret'.val = ret.val
       /\ (ret'.op = "get_default_registry" /\ ret.op = "register_on_default")
             => /\ ret'.val = ret.arg
                /\ \E i \in 1..Len(instances'[ret'.val]) : instances'[ret'.val][i].fn = ret.val
       /\ (ret'.op = "get_default_registry" /\ ret.op = "init")
             => /\ ret'.val \notin DOMAIN instances
                /\ ret'.val \in DOMAIN instances'
       /\ DOMAIN instances' # DOMAIN instances
             => (ret.op = "init" /\ ret'.op = "get_default_registry")]_vars

\* The default registry was set after a get had made one, a handler was
\* registered on it, and the get after that has returned the registry set,
\* with the handler.
C17_Witness ==
    /\ ret.op = "get_default_registry"
    /\ ret.val = <<"OperatorRegistry", 2>>
    /\ instances[ret.val] # <<>>
    /\ SmartRegistries(instances) # {}

\* No two handlers of the list have the same id.
UniqueIds(registered) ==
    \A i, j \in 1..Len(registered) : i # j => registered[i].id # registered[j].id

\* C18: no two handlers of one registry have the same id, whatever was
\* registered: the same callback twice with no id=, or the same id= twice.
C18_UniqueIdsPerRegistry ==
    /\ UniqueIds(activity_handlers)
    /\ \A resource \in DOMAIN resource_watching_handlers :
          UniqueIds(resource_watching_handlers[resource])
    /\ \A resource \in DOMAIN resource_changing_handlers :
          UniqueIds(resource_changing_handlers[resource])

\* ------------------------------------------------------------------------
\* SpecGrowth: registrations which succeed and which fail, in the three
\* kinds of registries, and the has_*() calls between them.

NextGrowth ==
    \/ \E fn \in {Fn1, Fn2, None} :
          NumHandlers < MaxHandlers /\ register_activity_handler(fn, None, None, FALSE)
    \/ \E resource \in Resources, fn \in {Fn1, Fn2, None} :
          register_resource_watching_handler(resource, fn, None, None, None, None)
    \/ \E resource \in Resources, fn \in {Fn1, Fn2, None} :
          register_resource_changing_handler(resource, [DefaultArgs EXCEPT !.fn = fn])
    \/ resources
    \/ has_activity_handlers
    \/ \E resource \in Resources : has_resource_watching_handlers(resource)
    \/ \E resource \in Resources : has_resource_changing_handlers(resource)

SpecGrowth == Init /\ [][NextGrowth]_vars

\* Every list of the map is, in the map after, the beginning of the list of
\* the same resource.
MapGrows(before, after) ==
    \A resource \in DOMAIN before :
        /\ resource \in DOMAIN after
        /\ IsPrefix(before[resource], after[resource])

\* C19: a call leaves every list of handlers as the beginning of what it is
\* after the call and removes no resource from a map; a registration which
\* succeeds appends one handler to one registry and makes no registry but
\* that one; has_*() is true exactly when the registry asked about holds a
\* handler, and once true it is true again.
C19_RegistriesOnlyGrow ==
    [][/\ IsPrefix(activity_handlers, activity_handlers')
       /\ MapGrows(resource_watching_handlers, resource_watching_handlers')
       /\ MapGrows(resource_changing_handlers, resource_changing_handlers')
       /\ (ret'.op \in RegisterOps /\ ret'.exc = None) =>
             /\ NumHandlers' = NumHandlers + 1
             /\ \A resource \in DOMAIN resource_watching_handlers' :
                   resource \notin DOMAIN resource_watching_handlers
                      => Len(resource_watching_handlers'[resource]) = 1
             /\ \A resource \in DOMAIN resource_changing_handlers' :
                   resource \notin DOMAIN resource_changing_handlers
                      => Len(resource_changing_handlers'[resource]) = 1
       /\ ret'.op = "has_activity_handlers" => (ret'.val <=> Len(activity_handlers') >= 1)
       /\ ret'.op = "has_resource_watching_handlers" =>
             (ret'.val <=> /\ ret'.arg \in DOMAIN resource_watching_handlers'
                           /\ Len(resource_watching_handlers'[ret'.arg]) >= 1)
       /\ ret'.op = "has_resource_changing_handlers" =>
             (ret'.val <=> /\ ret'.arg \in DOMAIN resource_changing_handlers'
                           /\ Len(resource_changing_handlers'[ret'.arg]) >= 1)
       /\ (/\ ret.op \in {"has_activity_handlers", "has_resource_watching_handlers",
                          "has_resource_changing_handlers"}
           /\ ret.op = ret'.op /\ ret.arg = ret'.arg /\ ret.val)
             => ret'.val]_vars

\* A registration for a resource has failed and one for another resource has
\* succeeded: both have a registry, and has_*() is false of the first.
C19_Witness ==
    /\ ret.op = "has_resource_changing_handlers"
    /\ ret.val = FALSE
    /\ ret.arg \in DOMAIN resource_changing_handlers
    /\ \E resource \in DOMAIN resource_changing_handlers :
          Len(resource_changing_handlers[resource]) = 2

\* ------------------------------------------------------------------------
\* SpecRace: two threads, each inside one call, a registration of a handler
\* for a resource or get_default_registry(), their steps interleaved. A
\* thread is [call, pc, resource, registry, val]: registry is the
\* registry which the lookup in the map gave it, which is the one in the map
\* (mapped) or one which the map has no more, with the handlers it holds.

Threads == {"t1", "t2"}

InitRace ==
    /\ activity_handlers = <<>>
    /\ resource_watching_handlers = <<>>
    /\ resource_changing_handlers = <<>>
    /\ ret = NoCall
    /\ default_registry = None
    /\ instances = <<>>
    /\ threads \in [Threads ->
          {[call |-> call, pc |-> "start", resource |-> resource,
            registry |-> None, val |-> None] :
              call \in {"register", "get"}, resource \in Resources}]
    /\ \A t \in Threads : threads[t].call = "get" => threads[t].resource = Deployments

\* The callback which a thread registers.
ThreadFn(t) == IF t = "t1" THEN Fn1 ELSE Fn2

\* self._resource_changing_handlers[resource]: the key is found, or else
\* __missing__ begins and calls the factory, which other threads can run during.
thread_getitem(t) ==
    /\ threads[t].call = "register" /\ threads[t].pc = "start"
    /\ threads' = [threads EXCEPT ![t] =
          IF threads[t].resource \in DOMAIN resource_changing_handlers
          THEN [@ EXCEPT !.pc = "register", !.registry = Some([mapped |-> TRUE, handlers |-> <<>>])]
          ELSE [@ EXCEPT !.pc = "missing"]]
    /\ UNCHANGED <<registries, ret, default_registry, instances>>

\* __missing__ ends: the new registry is stored under the key, in the place
\* of the registry which another thread may have stored there meanwhile.
thread_missing(t) ==
    /\ threads[t].pc = "missing"
    /\ LET resource == threads[t].resource
       IN  /\ resource_changing_handlers' =
                 IF resource \in DOMAIN resource_changing_handlers
                 THEN [resource_changing_handlers EXCEPT ![resource] = <<>>]
                 ELSE resource_changing_handlers @@ (resource :> <<>>)
           /\ threads' = [u \in Threads |->
                 IF u = t
                 THEN [threads[t] EXCEPT !.pc = "register",
                                         !.registry = Some([mapped |-> TRUE, handlers |-> <<>>])]
                 ELSE IF /\ threads[u].resource = resource
                         /\ threads[u].registry # None
                         /\ threads[u].registry[1].mapped
                      THEN [threads[u] EXCEPT !.registry =
                               Some([mapped |-> FALSE,
                                     handlers |-> resource_changing_handlers[resource]])]
                      ELSE threads[u]]
    /\ UNCHANGED <<activity_handlers, resource_watching_handlers, ret, default_registry, instances>>

\* .register(fn) on the registry which the lookup gave.
thread_register(t) ==
    /\ threads[t].pc = "register"
    /\ LET handler == ResourceHandler([DefaultArgs EXCEPT !.fn = ThreadFn(t)])
       IN  IF threads[t].registry[1].mapped
           THEN /\ resource_changing_handlers' =
                      registry_append(resource_changing_handlers, threads[t].resource, handler)
                /\ threads' = [threads EXCEPT ![t].pc = "done"]
           ELSE /\ threads' = [threads EXCEPT ![t].pc = "done",
                                  ![t].registry = Some([mapped |-> FALSE,
                                      handlers |-> Append(threads[t].registry[1].handlers, handler)])]
                /\ UNCHANGED resource_changing_handlers
    /\ UNCHANGED <<activity_handlers, resource_watching_handlers, ret, default_registry, instances>>

\* if _default_registry is None:
thread_test(t) ==
    /\ threads[t].call = "get" /\ threads[t].pc = "start"
    /\ threads' = [threads EXCEPT ![t].pc = IF default_registry = None THEN "build" ELSE "return"]
    /\ UNCHANGED <<registries, ret, default_registry, instances>>

\* _default_registry = SmartGlobalRegistry()
thread_build(t) ==
    /\ threads[t].pc = "build"
    /\ LET new == <<"SmartGlobalRegistry", Cardinality(SmartRegistries(instances)) + 1>>
       IN  /\ instances' = instances @@ (new :> SmartGlobalRegistry(FALSE, FALSE))
           /\ default_registry' = Some(new)
    /\ threads' = [threads EXCEPT ![t].pc = "return"]
    /\ UNCHANGED <<registries, ret>>

\* return _default_registry
thread_return(t) ==
    /\ threads[t].pc = "return"
    /\ threads' = [threads EXCEPT ![t].pc = "done", ![t].val = default_registry]
    /\ UNCHANGED <<registries, ret, default_registry, instances>>

NextRace ==
    \/ \E t \in Threads : thread_getitem(t)
    \/ \E t \in Threads : thread_missing(t)
    \/ \E t \in Threads : thread_register(t)
    \/ \E t \in Threads : thread_test(t)
    \/ \E t \in Threads : thread_build(t)
    \/ \E t \in Threads : thread_return(t)

SpecRace == InitRace /\ [][NextRace]_vars

\* C20: when the interleaved calls have all ended, the handler of every
\* registration is in the one registry which the map has for its resource,
\* so two registrations for a resource the map did not have end with both
\* handlers there; and the calls of get_default_registry() have all
\* returned the same registry, the one which is the default registry.
C20_InsertIfAbsent ==
    (\A t \in Threads : threads[t].pc = "done") =>
        /\ \A t \in Threads :
              threads[t].call = "register" =>
                  /\ threads[t].resource \in DOMAIN resource_changing_handlers
                  /\ \E i \in 1..Len(resource_changing_handlers[threads[t].resource]) :
                        resource_changing_handlers[threads[t].resource][i].fn = ThreadFn(t)
        /\ \A t, u \in Threads :
              (threads[t].call = "get" /\ threads[u].call = "get") =>
                  /\ threads[t].val = threads[u].val
                  /\ threads[t].val = default_registry

\* ------------------------------------------------------------------------
\* SpecIsolation: handlers of the three kinds for two resources, among them
\* registrations which fail, and the selections and `resources` after them.

NextIsolation ==
    LET IsolationCallbacks == {Fn1, Fn2, None}
        IsolationCauses ==
            {[DefaultCause EXCEPT !.resource = resource] : resource \in Resources}
    IN  \/ \E fn \in IsolationCallbacks :
              NumHandlers < MaxHandlers /\ register_activity_handler(fn, None, None, FALSE)
        \/ \E resource \in Resources, fn \in IsolationCallbacks :
              register_resource_watching_handler(resource, fn, None, None, None, None)
        \/ \E resource \in Resources, fn \in IsolationCallbacks :
              register_resource_changing_handler(resource, [DefaultArgs EXCEPT !.fn = fn])
        \/ resources
        \/ get_activity_handlers("startup")
        \/ \E cause \in IsolationCauses : get_resource_watching_handlers(cause)
        \/ \E cause \in IsolationCauses : get_resource_changing_handlers(cause)
        \/ \E cause \in IsolationCauses : ResourceWatchingRegistry_get(cause.resource, cause)
        \/ \E cause \in IsolationCauses : ResourceChangingRegistry_get(cause.resource, cause)

SpecIsolation == Init /\ [][NextIsolation]_vars

\* The handlers of the registry the map has for the resource, if any.
RegisteredFor(map, resource) ==
    IF resource \in DOMAIN map THEN map[resource] ELSE <<>>

\* A selection of the operator returns handlers of the one registry it
\* addresses, and what get_handlers() of that registry returns.
SelectsOwnRegistry ==
    /\ ret.op = "get_activity_handlers" =>
          /\ Range(ret.val) \subseteq Range(activity_handlers)
          /\ ret.val = ActivityRegistry_get_handlers(activity_handlers, ret.arg)
    /\ (ret.op = "get_resource_watching_handlers" /\ ret.exc = None) =>
          /\ Range(ret.val) \subseteq
                Range(RegisteredFor(resource_watching_handlers, ret.arg.resource))
          /\ ret.val = ResourceWatchingRegistry_get_handlers(
                           RegisteredFor(resource_watching_handlers, ret.arg.resource), ret.arg)
    /\ (ret.op = "get_resource_changing_handlers" /\ ret.exc = None) =>
          /\ Range(ret.val) \subseteq
                Range(RegisteredFor(resource_changing_handlers, ret.arg.resource))
          /\ ret.val = ResourceChangingRegistry_get_handlers(
                           RegisteredFor(resource_changing_handlers, ret.arg.resource), ret.arg)

\* A registration changes the one registry it addresses and no other.
RegistersInOneRegistry ==
    [][/\ ret'.op = "register_activity_handler" =>
             /\ resource_watching_handlers' = resource_watching_handlers
             /\ resource_changing_handlers' = resource_changing_handlers
       /\ ret'.op = "register_resource_watching_handler" =>
             /\ activity_handlers' = activity_handlers
             /\ resource_changing_handlers' = resource_changing_handlers
             /\ Cardinality({resource \in DOMAIN resource_watching_handlers' :
                    RegisteredFor(resource_watching_handlers, resource)
                        # resource_watching_handlers'[resource]}) <= 1
       /\ ret'.op = "register_resource_changing_handler" =>
             /\ activity_handlers' = activity_handlers
             /\ resource_watching_handlers' = resource_watching_handlers
             /\ Cardinality({resource \in DOMAIN resource_changing_handlers' :
                    RegisteredFor(resource_changing_handlers, resource)
                        # resource_changing_handlers'[resource]}) <= 1]_vars

\* The resources for which a watching or a changing handler is registered.
ResourcesWithHandlers ==
    {resource \in Resources :
        \/ RegisteredFor(resource_watching_handlers, resource) # <<>>
        \/ RegisteredFor(resource_changing_handlers, resource) # <<>>}

\* `resources` is the set of the resources with a registered handler.
ResourcesAreRegistered ==
    ret.op = "resources" => ret.val = ResourcesWithHandlers

\* C21: a selection of the operator returns only handlers registered in the
\* registry of its own kind and resource, and what get_handlers() of that
\* registry returns; and `resources` is exactly the set of the resources for
\* which a watching or a changing handler was registered.
C21_RegistriesIsolated ==
    /\ SelectsOwnRegistry
    /\ ResourcesAreRegistered

\* ------------------------------------------------------------------------
\* SpecScan: a selection taken one handler at a time, as its loops run, with
\* registrations between the steps. threads holds the call in progress:
\* the handlers consumed so far (i), those yielded, the indices of the
\* handlers whose predicate was invoked, the lengths of the registry when
\* the call began and ended, and the exception or the value it ended with.

\* As match_invokes(), but the rules are computed one after the other and
\* the predicate only if the three before it pass.
match_invokes_if_rules_pass(handler, cause) ==
    /\ handler.when # None
    /\ _matches_field(handler, ChangedFields(cause), FALSE)
    /\ _matches_labels(handler, cause.body)
    /\ _matches_annotations(handler, cause.body)

\* match() invokes the predicate of the handler: all() is given the list of
\* the four rules, so _matches_filter_callback() is called whatever the
\* other three say, and it calls handler.when if there is one.
match_invokes(handler, cause) == handler.when # None

\* The call is made: nothing of the registry is read yet.
iter_start(t, call, resource, arg) ==
    /\ t \in DOMAIN threads => threads[t].pc = "done"
    /\ call # "ActivityRegistry.get_handlers" => resource \in DOMAIN resource_changing_handlers
    /\ threads' = (t :> [call |-> call, resource |-> resource, arg |-> arg,
                         pc |-> IF call = "ActivityRegistry.get_handlers"
                                THEN "regular" ELSE "scan",
                         i |-> 0, found |-> FALSE, yielded |-> <<>>, invoked |-> <<>>,
                         start |-> IF call = "ActivityRegistry.get_handlers"
                                   THEN Len(activity_handlers)
                                   ELSE Len(resource_changing_handlers[resource]),
                         end |-> 0, exc |-> None, val |-> None])
    /\ UNCHANGED <<registries, ret, default_registry, instances>>

\* One turn of a loop of ActivityRegistry.iter_handlers(): the next handler
\* of the list as it is now, or the end of the loop.
ActivityRegistry_iter_next(t) ==
    /\ t \in DOMAIN threads
    /\ threads[t].call = "ActivityRegistry.get_handlers"
    /\ threads[t].pc \in {"regular", "fallback"}
    /\ LET th == threads[t]
           handlers == activity_handlers
       IN  IF th.i < Len(handlers)
           THEN LET handler == handlers[th.i + 1]
                    yields == IF th.pc = "regular"
                              THEN ActivityRegular(handler, th.arg)
                              ELSE ActivityFallback(handler, th.arg)
                IN  /\ threads' = [threads EXCEPT
                          ![t].i = @ + 1,
                          ![t].yielded = IF yields THEN Append(@, handler) ELSE @,
                          ![t].found = @ \/ (th.pc = "regular" /\ yields)]
                    /\ UNCHANGED ret
           ELSE IF th.pc = "regular" /\ ~th.found
           THEN /\ threads' = [threads EXCEPT ![t].pc = "fallback", ![t].i = 0]
                /\ UNCHANGED ret
           ELSE /\ threads' = [threads EXCEPT ![t].pc = "done", ![t].end = Len(handlers),
                                               ![t].val = Some(_deduplicated(th.yielded))]
                /\ ret' = Outcome(th.call, th.arg, None, _deduplicated(th.yielded))
    /\ UNCHANGED <<registries, default_registry, instances>>

\* One turn of the loop of ResourceChangingRegistry.iter_handlers().
ResourceChangingRegistry_iter_next(t) ==
    /\ t \in DOMAIN threads
    /\ threads[t].call = "ResourceChangingRegistry.get_handlers"
    /\ threads[t].pc = "scan"
    /\ LET th == threads[t]
           handlers == resource_changing_handlers[th.resource]
       IN  IF th.i < Len(handlers)
           THEN LET handler == handlers[th.i + 1]
                    invokes == ChangingCallsMatch(handler, th.arg) /\ match_invokes(handler, th.arg)
                    exc == IF invokes THEN when_raises(handler.when[1], th.arg) ELSE None
                IN  /\ threads' = [threads EXCEPT
                          ![t].i = @ + 1,
                          ![t].invoked = IF invokes THEN Append(@, th.i + 1) ELSE @,
                          ![t].yielded = IF exc = None /\ ChangingYields(handler, th.arg)
                                         THEN Append(@, handler) ELSE @,
                          ![t].pc = IF exc = None THEN @ ELSE "done",
                          ![t].end = IF exc = None THEN @ ELSE Len(handlers),
                          ![t].exc = exc]
                    /\ IF exc = None THEN UNCHANGED ret
                       ELSE ret' = Outcome(th.call, <<th.resource, th.arg>>, exc, None)
           ELSE /\ threads' = [threads EXCEPT ![t].pc = "done", ![t].end = Len(handlers),
                                               ![t].val = Some(_deduplicated(th.yielded))]
                /\ ret' = Outcome(th.call, <<th.resource, th.arg>>, None,
                                  _deduplicated(th.yielded))
    /\ UNCHANGED <<registries, default_registry, instances>>

\* One turn of the loop of ResourceRegistry.requires_finalizer().
ResourceRegistry_requires_finalizer_next(t) ==
    /\ t \in DOMAIN threads
    /\ threads[t].call = "ResourceChangingRegistry.requires_finalizer"
    /\ threads[t].pc = "scan"
    /\ LET th == threads[t]
           handlers == resource_changing_handlers[th.resource]
       IN  IF th.i < Len(handlers)
           THEN LET handler == handlers[th.i + 1]
                    invokes == handler.requires_finalizer /\ match_invokes(handler, th.arg)
                    exc == IF invokes THEN when_raises(handler.when[1], th.arg) ELSE None
                    matches == /\ exc = None
                               /\ handler.requires_finalizer
                               /\ match(handler, th.arg, {}, FALSE)
                    ends == exc # None \/ matches
                IN  /\ threads' = [threads EXCEPT
                          ![t].i = @ + 1,
                          ![t].invoked = IF invokes THEN Append(@, th.i + 1) ELSE @,
                          ![t].pc = IF ends THEN "done" ELSE @,
                          ![t].end = IF ends THEN Len(handlers) ELSE @,
                          ![t].exc = exc,
                          ![t].val = IF matches THEN Some(TRUE) ELSE @]
                    /\ IF ends
                       THEN ret' = Outcome(th.call, <<th.resource, th.arg>>, exc, TRUE)
                       ELSE UNCHANGED ret
           ELSE /\ threads' = [threads EXCEPT ![t].pc = "done", ![t].end = Len(handlers),
                                               ![t].val = Some(FALSE)]
                /\ ret' = Outcome(th.call, <<th.resource, th.arg>>, None, FALSE)
    /\ UNCHANGED <<registries, default_registry, instances>>

NextScan ==
    LET ScanArgs ==
            {[DefaultArgs EXCEPT !.when = Some("always")],
             [DefaultArgs EXCEPT !.when = Some("always"), !.reason = Some("create")],
             [DefaultArgs EXCEPT !.when = Some("always"), !.labels = Some(Prod),
                                 !.requires_finalizer = TRUE],
             [DefaultArgs EXCEPT !.when = Some("raises"), !.field = Some(<<"spec">>)],
             [DefaultArgs EXCEPT !.when = Some("raises"), !.initial = Some(TRUE)],
             [DefaultArgs EXCEPT !.requires_finalizer = TRUE]}
        ScanCauses ==
            {DefaultCause, [DefaultCause EXCEPT !.reason = "create", !.initial = TRUE]}
    IN  \/ \E fn \in Callbacks, activity \in {None, Some("startup")}, fallback \in BOOLEAN :
              NumHandlers < MaxHandlers /\ register_activity_handler(fn, None, activity, fallback)
        \/ \E p \in ScanArgs : register_resource_changing_handler(Deployments, p)
        \/ iter_start("t1", "ActivityRegistry.get_handlers", Deployments, "startup")
        \/ \E cause \in ScanCauses :
              iter_start("t1", "ResourceChangingRegistry.get_handlers", Deployments, cause)
        \/ \E cause \in ScanCauses :
              iter_start("t1", "ResourceChangingRegistry.requires_finalizer", Deployments, cause)
        \/ ActivityRegistry_iter_next("t1")
        \/ ResourceChangingRegistry_iter_next("t1")
        \/ ResourceRegistry_requires_finalizer_next("t1")

SpecScan == Init /\ [][NextScan]_vars

\* The handlers of the registry which the call of the thread reads.
ScannedHandlers(t) ==
    IF threads[t].call = "ActivityRegistry.get_handlers"
    THEN activity_handlers
    ELSE resource_changing_handlers[threads[t].resource]

\* The calls which go through the handlers of a changing registry.
ScanOps == {"ResourceChangingRegistry.get_handlers",
            "ResourceChangingRegistry.requires_finalizer"}

\* The handler has a predicate, and the loop of the call asks match() about
\* it: the selection for the handlers which pass the rule of the reason and
\* the rule of initial and deleted, requires_finalizer() for the handlers
\* which require the finalizer.
PredicateDue(call, handler, cause) ==
    /\ handler.when # None
    /\ IF call = "ResourceChangingRegistry.get_handlers"
       THEN ReasonRule(handler, cause) /\ InitialRule(handler, cause)
       ELSE handler.requires_finalizer

\* C22: while a selection of a changing registry goes through the handlers,
\* the predicates invoked so far are, once each and in the order of the
\* registry, those of the handlers gone through which pass the rule of the
\* reason and the rule of initial and deleted, whatever their field, labels
\* and annotations, and of no other handler; the selection ends with an
\* error exactly when the predicate invoked last raises, also for a handler
\* whose field, labels or annotations do not match, and otherwise goes
\* through every handler. requires_finalizer() invokes the predicates of
\* handlers with requires_finalizer only.
C22_PredicateInvokedOncePerEligible ==
    \A t \in DOMAIN threads :
        LET th == threads[t]
            handlers == ScannedHandlers(t)
            last == th.invoked[Len(th.invoked)]
        IN  th.call \in ScanOps =>
               /\ \A k \in 1..(Len(th.invoked) - 1) : th.invoked[k] < th.invoked[k + 1]
               /\ Range(th.invoked) =
                     {i \in 1..th.i : PredicateDue(th.call, handlers[i], th.arg)}
               /\ th.exc # None <=>
                     /\ th.invoked # <<>>
                     /\ last = th.i
                     /\ PredicateRaises(handlers[last], th.arg)
               /\ th.exc # None => th.pc = "done" /\ th.val = None
               /\ (th.call = "ResourceChangingRegistry.get_handlers"
                   /\ th.pc = "done" /\ th.exc = None) => th.i = th.end
               /\ th.call = "ResourceChangingRegistry.requires_finalizer" =>
                     \A i \in Range(th.invoked) : handlers[i].requires_finalizer

\* A selection has ended with the error of the predicate of the second
\* handler, whose field is not in the diff, after it had invoked the
\* predicate of the first, whose labels the resource does not have.
C22_Witness ==
    /\ "t1" \in DOMAIN threads
    /\ threads["t1"].call = "ResourceChangingRegistry.get_handlers"
    /\ threads["t1"].pc = "done"
    /\ threads["t1"].exc = Some("ValueError")
    /\ threads["t1"].invoked = <<1, 2>>
    /\ ~LabelRule(ScannedHandlers("t1")[1], threads["t1"].arg)
    /\ ~FieldRule(ScannedHandlers("t1")[2], threads["t1"].arg)

\* What the call of the thread returns or raises on a registry of these
\* handlers, when nothing is registered while it runs.
SelectOf(t, handlers) ==
    LET th == threads[t] IN
    CASE th.call = "ActivityRegistry.get_handlers" ->
            [exc |-> None, val |-> Some(ActivityRegistry_get_handlers(handlers, th.arg))]
      [] th.call = "ResourceChangingRegistry.get_handlers" ->
            LET exc == ResourceChangingRegistry_iter_handlers_raises(handlers, th.arg)
            IN  [exc |-> exc,
                 val |-> IF exc = None
                         THEN Some(ResourceChangingRegistry_get_handlers(handlers, th.arg))
                         ELSE None]
      [] th.call = "ResourceChangingRegistry.requires_finalizer" ->
            LET exc == ResourceRegistry_requires_finalizer_raises(handlers, th.arg)
            IN  [exc |-> exc,
                 val |-> IF exc = None
                         THEN Some(ResourceRegistry_requires_finalizer(handlers, th.arg))
                         ELSE None]

\* The call of the thread has ended as it would on the registry as it was
\* at some moment between its beginning and its end.
Linearizable(t) ==
    \E n \in threads[t].start..threads[t].end :
        LET at == SelectOf(t, Slice(ScannedHandlers(t), n))
        IN  threads[t].exc = at.exc /\ threads[t].val = at.val

\* The selection of the thread has returned a fallback handler along with a
\* handler, not a fallback one, registered after the selection began.
MixesFallbackAndLater(t) ==
    LET th == threads[t] IN
    /\ \E handler \in Range(th.val[1]) : handler.fallback
    /\ \E i \in (th.start + 1)..th.end :
          /\ ~activity_handlers[i].fallback
          /\ activity_handlers[i] \in Range(th.val[1])

\* C23: a selection during which one handler is registered in its registry
\* ends as the same selection does on the registry as it was before or as it
\* is after that registration; and a selection of activity handlers never
\* returns fallback handlers together with a handler, not a fallback one,
\* registered while it ran.
C23_SelectLinearizable ==
    \A t \in DOMAIN threads :
        threads[t].pc = "done" =>
            /\ threads[t].end <= threads[t].start + 1 => Linearizable(t)
            /\ threads[t].call = "ActivityRegistry.get_handlers" => ~MixesFallbackAndLater(t)

\* The selections of a changing registry and requires_finalizer(), which go
\* through the handlers once, are linearizable, however many handlers are
\* registered meanwhile.
ScanOnceLinearizable ==
    \A t \in DOMAIN threads :
        (threads[t].pc = "done" /\ threads[t].call \in ScanOps) => Linearizable(t)

\* A selection during which nothing is registered ends as the call does
\* when it is taken at once.
UndisturbedSelect ==
    \A t \in DOMAIN threads :
        (threads[t].pc = "done" /\ threads[t].start = threads[t].end)
            => /\ threads[t].exc = SelectOf(t, Slice(ScannedHandlers(t), threads[t].end)).exc
               /\ threads[t].val = SelectOf(t, Slice(ScannedHandlers(t), threads[t].end)).val

====
